---- MODULE Spec2Model ----
(***************************************************************************)
(* A model of pizzatron: the AI gateway (src/src/ai.py), the store         *)
(* (src/src/db.py), the request handlers and background tasks              *)
(* (src/src/app.py) and the data-clearing step of the dummy-data seeder    *)
(* (src/scripts/seed_db_with_dummy_data.py).                               *)
(*                                                                         *)
(* Three specifications share the variables:                               *)
(*   SpecGen     one invocation of generate_chef_image, step by step;      *)
(*   SpecReview  one invocation of review_pizza_images;                    *)
(*   Spec        the store with the submit-pizza request, the background   *)
(*               review task and the deletion of chefs.                    *)
(***************************************************************************)
EXTENDS Integers, Sequences, FiniteSets, TLC

VARIABLES
    gen,        \* the frame of the running generate_chef_image call
    genEnv,     \* its inputs: the reference image and the prompt file
    rev,        \* the outcome of the review_pizza_images call
    revEnv,     \* its arguments and what it reads: table, prompt, files
    chefs,      \* table chefs                       (db.py:14-26)
    pizzas,     \* table pizzas                      (db.py:29-42)
    images,     \* table pizza_images                (db.py:45-57)
    categories, \* table review_categories           (db.py:60-70)
    reviews,    \* table pizza_review                (db.py:73-86)
    scores,     \* table pizza_review_scores         (db.py:89-102)
    files,      \* the local paths written under src/static/images
    submits,    \* the submit-pizza requests being handled (app.py:300-401)
    reviewTasks,   \* the scheduled review tasks       (app.py:404-448)
    portraitTasks, \* the scheduled portrait tasks     (app.py:42-83)
    issued,     \* how many requests of each kind were made
    gone,       \* what the last deletion of chefs removed
    seeders,    \* the processes running initialize_database (db.py:153-156)
    threads,    \* the background runner's threads, between their blocking calls
    sessions    \* the threads that hold an open store session

genVars == <<gen, genEnv>>

runVars == <<seeders, threads, sessions>>

revVars == <<rev, revEnv>>

tables == <<chefs, pizzas, images, categories, reviews, scores>>

appVars == <<chefs, pizzas, images, categories, reviews, scores, files,
             submits, reviewTasks, portraitTasks, issued, gone>>

vars == <<gen, genEnv, rev, revEnv, chefs, pizzas, images, categories,
          reviews, scores, files, submits, reviewTasks, portraitTasks,
          issued, gone, seeders, threads, sessions>>

(***************************************************************************)
(* base64.b64decode (ai.py:63), non-validating mode, on payloads written   *)
(* as sequences of one-character strings.                                  *)
(***************************************************************************)
B64Alphabet ==
    <<"A","B","C","D","E","F","G","H","I","J","K","L","M","N","O","P",
      "Q","R","S","T","U","V","W","X","Y","Z","a","b","c","d","e","f",
      "g","h","i","j","k","l","m","n","o","p","q","r","s","t","u","v",
      "w","x","y","z","0","1","2","3","4","5","6","7","8","9","+","/">>

B64Value(c) == (CHOOSE i \in 1..64 : B64Alphabet[i] = c) - 1

IsB64Char(c) == \E i \in 1..64 : B64Alphabet[i] = c

\* The data characters before the first "=" (characters outside the alphabet
\* are discarded), and the number of "=" that follow them.
RECURSIVE B64Data(_)
B64Data(s) ==
    IF s = <<>> \/ Head(s) = "=" THEN <<>>
    ELSE IF IsB64Char(Head(s)) THEN <<Head(s)>> \o B64Data(Tail(s))
    ELSE B64Data(Tail(s))

RECURSIVE B64Pads(_)
B64Pads(s) ==
    IF s = <<>> THEN 0
    ELSE (IF Head(s) = "=" THEN 1 ELSE 0) + B64Pads(Tail(s))

\* A payload decodes when its data characters fill whole quads, or when the
\* last quad holds 2 or 3 of them and the padding completes it.
B64Decodable(s) ==
    LET q == Len(B64Data(s)) % 4
    IN  q = 0 \/ (q >= 2 /\ q + B64Pads(s) >= 4)

RECURSIVE B64Bytes(_)
B64Bytes(d) ==
    IF Len(d) < 2 THEN <<>>
    ELSE LET v1 == B64Value(d[1])
             v2 == B64Value(d[2])
             v3 == IF Len(d) >= 3 THEN B64Value(d[3]) ELSE 0
             v4 == IF Len(d) >= 4 THEN B64Value(d[4]) ELSE 0
             b1 == v1 * 4 + v2 \div 16
             b2 == (v2 % 16) * 16 + v3 \div 4
             b3 == (v3 % 4) * 64 + v4
         IN  IF Len(d) = 2 THEN <<b1>>
             ELSE IF Len(d) = 3 THEN <<b1, b2>>
             ELSE <<b1, b2, b3>> \o B64Bytes(SubSeq(d, 5, Len(d)))

b64decode(s) == B64Bytes(B64Data(s))

(***************************************************************************)
(* generate_chef_image (ai.py:15-77).                                      *)
(***************************************************************************)
max_retries == 3

initial_retry_delay == 2

NoBytes == <<>>

\* An image as the normalisation sees it: whether PIL can open the bytes, the
\* colour mode, the container format, whether transparency was flattened.
Image(fmt, mode) == [fmt |-> fmt, mode |-> mode, flattened |-> FALSE]

ReferenceImages ==
    { Image("JPEG", m) : m \in {"RGB", "L", "CMYK"} }
        \cup { Image("PNG", m) : m \in {"RGBA", "LA", "P"} }
        \cup { Image("garbage", "none") }

\* ai.py:19-45: orientation fix, flattening onto white, RGB, re-encoding as
\* PNG; any failure falls back to the original bytes.
ProcessImage(img) ==
    IF img.fmt = "garbage" THEN img
    ELSE [fmt |-> "PNG", mode |-> "RGB",
          flattened |-> (img.mode \in {"RGBA", "LA", "P"})]

\* What one client.images.edit call can do: raise, or answer with a payload.
Exceptions == {"APIError", "APITimeoutError"}

Payloads ==
    { <<"A","Q","I","D">>,      \* bytes 1 2 3
      <<"/","w","=","=">>,      \* byte 255
      <<"A","Q","I">> }         \* incorrect padding: b64decode raises

RemoteOutcomes ==
    { [kind |-> "exception", err |-> e, b64 |-> <<>>] : e \in Exceptions }
        \cup { [kind |-> "response", err |-> "", b64 |-> p] : p \in Payloads }

NoResult == [kind |-> "none", bytes |-> NoBytes, err |-> ""]

Returned(bytes) == [kind |-> "returned", bytes |-> bytes, err |-> ""]

Raised(err) == [kind |-> "raised", bytes |-> NoBytes, err |-> err]

IdleGen ==
    [pc |-> "idle", image |-> Image("garbage", "none"), attempt |-> 0,
     retry_delay |-> 0, calls |-> <<>>, sleeps |-> <<>>, result |-> NoResult]

\* ai.py:15-51: normalise the input, read the prompt file (a missing file
\* raises out of the function before any remote call), set up the loop.
GenEnter(image, prompt) ==
    IF prompt = "missing"
    THEN [IdleGen EXCEPT !.pc = "done", !.image = ProcessImage(image),
                         !.result = Raised("FileNotFoundError")]
    ELSE [IdleGen EXCEPT !.pc = "attempt", !.image = ProcessImage(image),
                         !.attempt = 0, !.retry_delay = initial_retry_delay]

\* The exception the try body of one attempt ends with ("" when it returns):
\* the remote call's own, or b64decode's (ai.py:55-65).
AttemptError(o) ==
    IF o.kind = "exception" THEN o.err
    ELSE IF ~B64Decodable(o.b64) THEN "binascii.Error"
    ELSE ""

\* Mutants of GenAttempt: the last-attempt test off by one (a fourth call);
\* the last failure swallowed (the loop falls through and returns nothing).
GenAttempt_OffByOne(g, o) ==
    LET called == [g EXCEPT !.calls = Append(g.calls, o)]
        err == AttemptError(o)
    IN  IF err = ""
        THEN [called EXCEPT !.pc = "done", !.result = Returned(b64decode(o.b64))]
        ELSE IF g.attempt = max_retries
        THEN [called EXCEPT !.pc = "done", !.result = Raised(err)]
        ELSE [called EXCEPT !.pc = "sleep"]

GenAttempt_SwallowLast(g, o) ==
    LET called == [g EXCEPT !.calls = Append(g.calls, o)]
        err == AttemptError(o)
    IN  IF err = ""
        THEN [called EXCEPT !.pc = "done", !.result = Returned(b64decode(o.b64))]
        ELSE IF g.attempt = max_retries - 1
        THEN [called EXCEPT !.pc = "done", !.result = Returned(NoBytes)]
        ELSE [called EXCEPT !.pc = "sleep"]

\* ai.py:53-72: one pass through the try body and the head of the handler.
GenAttempt(g, o) ==
    LET called == [g EXCEPT !.calls = Append(g.calls, o)]
        err == AttemptError(o)
    IN  IF err = ""
        THEN [called EXCEPT !.pc = "done", !.result = Returned(b64decode(o.b64))]
        ELSE IF g.attempt = max_retries - 1
        THEN [called EXCEPT !.pc = "done", !.result = Raised(err)]
        ELSE [called EXCEPT !.pc = "sleep"]

\* Mutant of GenSleep: a constant delay (the doubling forgotten).
GenSleep_NoDoubling(g) ==
    [g EXCEPT !.pc = "attempt",
              !.sleeps = Append(g.sleeps, g.retry_delay),
              !.attempt = g.attempt + 1]

\* ai.py:74-77 and the loop's next iteration: wait, double the delay.
GenSleep(g) ==
    [g EXCEPT !.pc = "attempt",
              !.sleeps = Append(g.sleeps, g.retry_delay),
              !.retry_delay = g.retry_delay * 2,
              !.attempt = g.attempt + 1]

(***************************************************************************)
(* review_pizza_images (ai.py:80-170).                                     *)
(***************************************************************************)
\* db.py:132-139, the names seed_database inserts, in insertion order.
SeedCategoryNames ==
    <<"Shape", "Crust Quality", "Presentation", "Bake Quality",
      "Flavor (estimated)", "Overall">>

Range(f) == { f[i] : i \in DOMAIN f }

\* A web path "/static/images/<dir>/<file>" and the local path the gateway
\* opens for it: leading slashes stripped, joined under "src" (ai.py:111).
\* File names: pizza_<pizza id>_<n>_<uuid><ext>, chef_temp_<uuid><ext>,
\* chef_ai_<uuid>.png; the uuid part is written as the number of the request
\* that drew it.
WebPath(dir, tag, owner, idx, uuid, ext) ==
    [slash |-> TRUE, dir |-> dir, tag |-> tag, owner |-> owner, idx |-> idx,
     uuid |-> uuid, ext |-> ext]

LocalPath(p) ==
    [root |-> "src", dir |-> p.dir, tag |-> p.tag, owner |-> p.owner,
     idx |-> p.idx, uuid |-> p.uuid, ext |-> p.ext]

\* The prompt file as a sequence of pieces: literal text, or a replacement
\* field of str.format.
Text(t) == [kind |-> "text", s |-> t]

Field(n) == [kind |-> "field", s |-> n]

GoodPrompt == <<Text("You judge the pizza of chef "), Field("chef_name"), Text(".")>>

BadPrompt == <<Text("Return "), Field("scores"), Text(" for "), Field("chef_name")>>

PromptFiles ==
    { [exists |-> TRUE, pieces |-> GoodPrompt],
      [exists |-> TRUE, pieces |-> BadPrompt],
      [exists |-> FALSE, pieces |-> <<>>] }

\* str.format(chef_name=...): every field must be chef_name (KeyError if not).
FormatOk(pieces) ==
    \A i \in 1..Len(pieces) :
        pieces[i].kind = "field" => pieces[i].s = "chef_name"

Format(pieces, chef_name) ==
    [i \in 1..Len(pieces) |->
        IF pieces[i].kind = "field" THEN chef_name ELSE <<pieces[i].s>>]

\* The value json.loads yields, as far as the task looks into it: the top
\* level (an object or not), review_summary and scores when present.
Absent == [present |-> FALSE, isObject |-> FALSE, map |-> <<>>]

ScoresObject(m) == [present |-> TRUE, isObject |-> TRUE, map |-> m]

ScoresNotObject == [present |-> TRUE, isObject |-> FALSE, map |-> <<>>]

JsonObject(review_summary, score_object) ==
    [isObject |-> TRUE, summary |-> review_summary, scores |-> score_object]

JsonArray == [isObject |-> FALSE, summary |-> <<>>, scores |-> Absent]

NoImagesSummary == "No images supplied for review."

\* Mutant of NoImagesReview: the summary alone, no score per category.
NoImagesReview_NoScores(category_names) ==
    JsonObject(<<NoImagesSummary>>, ScoresObject([c \in {} |-> 0]))

\* ai.py:127-130.
NoImagesReview(category_names) ==
    JsonObject(<<NoImagesSummary>>, ScoresObject([c \in category_names |-> 0]))

\* The text the remote provider answers with: it parses or not, and parses
\* to a value.
Reply(value) == [parses |-> TRUE, value |-> value]

Unparsable == [parses |-> FALSE, value |-> JsonArray]

ReviewFrame(kind, value, err, requests) ==
    [kind |-> kind, value |-> value, err |-> err, requests |-> requests]

NoReview == ReviewFrame("none", JsonArray, "", <<>>)

\* Mutant of NoImageGuard: the guard dropped.
NoImageGuard_Never(image_parts) == FALSE

\* ai.py:126.
NoImageGuard(image_parts) == image_parts = <<>>

\* Mutants of review_pizza_images: a failed remote call is made a second
\* time before the failure is raised; one unreadable path aborts the call.
review_pizza_images_Retries(pizza_image_paths, chef_name, table, prompt, readable, outcome) ==
    LET Readable(p) == LocalPath(p) \in readable
        image_parts == SelectSeq(pizza_image_paths, Readable)
        request == [system |-> Format(prompt.pieces, chef_name),
                    images |-> [i \in 1..Len(image_parts) |-> LocalPath(image_parts[i])]]
    IN  IF ~table.ok
        THEN ReviewFrame("raised", JsonArray, "OperationalError", <<>>)
        ELSE IF ~prompt.exists
        THEN ReviewFrame("raised", JsonArray, "FileNotFoundError", <<>>)
        ELSE IF ~FormatOk(prompt.pieces)
        THEN ReviewFrame("raised", JsonArray, "KeyError", <<>>)
        ELSE IF NoImageGuard(image_parts)
        THEN ReviewFrame("returned", NoImagesReview(table.names), "", <<>>)
        ELSE IF outcome.kind = "exception"
        THEN ReviewFrame("raised", JsonArray, outcome.err, <<request, request>>)
        ELSE IF ~outcome.reply.parses
        THEN ReviewFrame("raised", JsonArray, "JSONDecodeError", <<request, request>>)
        ELSE ReviewFrame("returned", outcome.reply.value, "", <<request>>)

review_pizza_images_AbortsOnUnreadable(pizza_image_paths, chef_name, table, prompt, readable, outcome) ==
    LET Readable(p) == LocalPath(p) \in readable
        image_parts == SelectSeq(pizza_image_paths, Readable)
        request == [system |-> Format(prompt.pieces, chef_name),
                    images |-> [i \in 1..Len(image_parts) |-> LocalPath(image_parts[i])]]
    IN  IF ~table.ok
        THEN ReviewFrame("raised", JsonArray, "OperationalError", <<>>)
        ELSE IF ~prompt.exists
        THEN ReviewFrame("raised", JsonArray, "FileNotFoundError", <<>>)
        ELSE IF ~FormatOk(prompt.pieces)
        THEN ReviewFrame("raised", JsonArray, "KeyError", <<>>)
        ELSE IF Len(image_parts) < Len(pizza_image_paths)
        THEN ReviewFrame("raised", JsonArray, "FileNotFoundError", <<>>)
        ELSE IF NoImageGuard(image_parts)
        THEN ReviewFrame("returned", NoImagesReview(table.names), "", <<>>)
        ELSE IF outcome.kind = "exception"
        THEN ReviewFrame("raised", JsonArray, outcome.err, <<request>>)
        ELSE IF ~outcome.reply.parses
        THEN ReviewFrame("raised", JsonArray, "JSONDecodeError", <<request>>)
        ELSE ReviewFrame("returned", outcome.reply.value, "", <<request>>)

\* review_pizza_images as a function of its arguments and of what it reads:
\*   table    the ReviewCategory query: [ok, names]          (ai.py:96-102)
\*   prompt   the prompt file                                (ai.py:105-106)
\*   readable the local paths that can be read               (ai.py:109-123)
\*   outcome  what the remote call does: [kind, err, reply]  (ai.py:160-170)
\* The result is returned or raised; requests are the remote calls made, each
\* with the images it carried.
review_pizza_images(pizza_image_paths, chef_name, table, prompt, readable, outcome) ==
    LET Readable(p) == LocalPath(p) \in readable
        image_parts == SelectSeq(pizza_image_paths, Readable)
        request == [system |-> Format(prompt.pieces, chef_name),
                    images |-> [i \in 1..Len(image_parts) |-> LocalPath(image_parts[i])]]
    IN  IF ~table.ok
        THEN ReviewFrame("raised", JsonArray, "OperationalError", <<>>)
        ELSE IF ~prompt.exists
        THEN ReviewFrame("raised", JsonArray, "FileNotFoundError", <<>>)
        ELSE IF ~FormatOk(prompt.pieces)
        THEN ReviewFrame("raised", JsonArray, "KeyError", <<>>)
        ELSE IF NoImageGuard(image_parts)
        THEN ReviewFrame("returned", NoImagesReview(table.names), "", <<>>)
        ELSE IF outcome.kind = "exception"
        THEN ReviewFrame("raised", JsonArray, outcome.err, <<request>>)
        ELSE IF ~outcome.reply.parses
        THEN ReviewFrame("raised", JsonArray, "JSONDecodeError", <<request>>)
        ELSE ReviewFrame("returned", outcome.reply.value, "", <<request>>)

\* Score maps of the replies: one score per category, a category missing and
\* an unknown one added, values inside and outside 1..5.
AllCategories == Range(SeedCategoryNames)

UniformScores(names, v) == [c \in names |-> v]

ScoreMaps ==
    { UniformScores(AllCategories, v) : v \in {4, 7, -1} }
        \cup { UniformScores((AllCategories \ {"Overall"}) \cup {"Roundness"}, 3) }

Replies ==
    { Reply(JsonObject(<<"Good">>, ScoresObject(m))) : m \in ScoreMaps }
        \cup { Reply(JsonObject(<<"Good">>, Absent)),
               Reply(JsonObject(<<"Good">>, ScoresNotObject)),
               Reply(JsonObject(<<>>, ScoresObject(UniformScores(AllCategories, 4)))),
               Reply(JsonArray),
               Unparsable }

ReviewOutcomes ==
    { [kind |-> "exception", err |-> e, reply |-> Unparsable] : e \in Exceptions }
        \cup { [kind |-> "response", err |-> "", reply |-> r] : r \in Replies }

\* One call of review_pizza_images: the arguments and the environment are
\* drawn in RevInit, the remote outcome at the call.
MaxPaths == 2

SomePaths == { WebPath("pizzas", "pizza", 1, i, 1, ".jpg") : i \in 1..2 }

PathLists == UNION { [1..n -> SomePaths] : n \in 0..MaxPaths }

ChefNames == { <<"M">>, <<"L", "u">> }

Tables ==
    { [ok |-> TRUE, names |-> AllCategories],
      [ok |-> TRUE, names |-> {}],
      [ok |-> FALSE, names |-> {}] }

(***************************************************************************)
(* The store (db.py).  The engine is SQLite (db.py:111) and no statement   *)
(* turns foreign-key enforcement on, so a ForeignKey column takes any      *)
(* integer; an Integer primary key is a rowid, allocated as the largest    *)
(* id in the table plus one (ids of deleted rows come back).               *)
(***************************************************************************)
ChefRow(id, name, image_path) ==
    [id |-> id, name |-> name, image_path |-> image_path]

PizzaRow(id, chef_id) == [id |-> id, chef_id |-> chef_id]

ImageRow(id, pizza_id, image_path) ==
    [id |-> id, pizza_id |-> pizza_id, image_path |-> image_path]

CategoryRow(id, name) == [id |-> id, name |-> name]

ReviewRow(id, pizza_id, review_summary) ==
    [id |-> id, pizza_id |-> pizza_id, review_summary |-> review_summary]

ScoreRow(id, pizza_review_id, category_id, score) ==
    [id |-> id, pizza_review_id |-> pizza_review_id,
     category_id |-> category_id, score |-> score]

Ids(table) == { r.id : r \in table }

Max(S) == CHOOSE x \in S : \A y \in S : y <= x

NextId(table) == IF table = {} THEN 1 ELSE Max(Ids(table)) + 1

\* db.py:122-151 on an empty table.
SeededCategories ==
    { CategoryRow(i, SeedCategoryNames[i]) : i \in 1..Len(SeedCategoryNames) }

\* db.py:169-175.
get_chef_by_id(chef_id) == { c \in chefs : c.id = chef_id }

\* The rows the relationships reach (db.py:23, 38, 39, 83).
PizzasOf(chef_ids) == { p \in pizzas : p.chef_id \in chef_ids }

ImagesOf(pizza_ids) == { i \in images : i.pizza_id \in pizza_ids }

ReviewsOf(pizza_ids) == { r \in reviews : r.pizza_id \in pizza_ids }

ScoresOf(review_ids) == { s \in scores : s.pizza_review_id \in review_ids }

\* Pizza.review is a scalar relationship (uselist=False, db.py:39): for each
\* pizza it loads one PizzaReview row, whichever the query returns first when
\* several rows carry the pizza's id.  The possible loads for a set of pizzas:
\* the sets holding one review of each pizza that has any.
ReviewLoads(pizza_ids) ==
    { L \in SUBSET ReviewsOf(pizza_ids) :
        \A p \in pizza_ids :
            IF ReviewsOf({p}) = {} THEN TRUE
            ELSE Cardinality({ r \in L : r.pizza_id = p }) = 1 }

\* The rows of the scores table a review task adds (app.py:425-436): one per
\* entry of the scores object whose name is a known category.  Ids follow
\* the category ids, standing for the object's own order.
RECURSIVE ScoreRowsFrom(_, _, _, _)
ScoreRowsFrom(review_id, map, cats, next) ==
    IF cats = {} THEN {}
    ELSE LET c == CHOOSE x \in cats : \A y \in cats : x.id <= y.id
         IN  IF c.name \in DOMAIN map
             THEN { ScoreRow(next, review_id, c.id, map[c.name]) }
                    \cup ScoreRowsFrom(review_id, map, cats \ {c}, next + 1)
             ELSE ScoreRowsFrom(review_id, map, cats \ {c}, next)

(***************************************************************************)
(* Request inputs (app.py:199-205, 300-306).                               *)
(***************************************************************************)
\* str.strip on a name written as a sequence of characters.
RECURSIVE LStrip(_)
LStrip(s) == IF s # <<>> /\ Head(s) = " " THEN LStrip(Tail(s)) ELSE s

RECURSIVE RStrip(_)
RStrip(s) ==
    IF s # <<>> /\ s[Len(s)] = " " THEN RStrip(SubSeq(s, 1, Len(s) - 1)) ELSE s

Strip(s) == RStrip(LStrip(s))

\* An uploaded part: its filename (stem and suffix, both empty when the part
\* carries no file) and its content.
FileName(stem, suffix) == [stem |-> stem, suffix |-> suffix]

NoFileName == FileName("", "")

Part(filename, content) == [given |-> TRUE, filename |-> filename, content |-> content]

NoPart == [given |-> FALSE, filename |-> NoFileName, content |-> Image("empty", "none")]

\* str.lower on the suffixes used.
Lower(suffix) ==
    CASE suffix = ".JPG" -> ".jpg"
      [] suffix = ".PNG" -> ".png"
      [] OTHER -> suffix

\* Mutant of allowed_extensions: text files pass as well.
allowed_extensions_Any == {".jpg", ".jpeg", ".png", ".gif", ".webp", ".txt"}

\* app.py:227, 338.
allowed_extensions == {".jpg", ".jpeg", ".png", ".gif", ".webp"}

HasFile(part) == part.given /\ part.filename # NoFileName

ExtensionOf(part) == Lower(part.filename.suffix)

Photo == Part(FileName("margherita", ".jpg"), Image("JPEG", "RGB"))

Scan == Part(FileName("slice", ".PNG"), Image("PNG", "RGBA"))

Notes == Part(FileName("notes", ".txt"), Image("garbage", "none"))

EmptyPart == Part(NoFileName, Image("empty", "none"))

\* A file with an accepted name and no bytes in it.
Blank == Part(FileName("blank", ".jpg"), Image("empty", "none"))

ChefNameInputs == { <<" ", "L", "u", " ">>, <<" ">>, <<>> }

ChefImageInputs == { NoPart, Photo, Notes, Blank }

PizzaImageInputs ==
    { <<>>, <<Photo, Scan>>, <<EmptyPart>>, <<Notes>>,
      <<Photo, Photo, Photo, Photo>> }

\* Bounds on the requests made.
MaxChefRequests == 1

MaxSubmits == 2

MaxDeletes == 1

MaxRejected == 1

\* The remote outcomes the review tasks meet: one failure, and the replies
\* that differ in what the task then writes.
TaskOutcomes ==
    { [kind |-> "exception", err |-> "APIError", reply |-> Unparsable] }
        \cup { [kind |-> "response", err |-> "", reply |-> r] :
                 r \in { Reply(JsonObject(<<"Good">>, ScoresObject(UniformScores(AllCategories, 4)))),
                         Reply(JsonObject(<<"Good">>, ScoresObject(UniformScores(AllCategories, 7)))),
                         Reply(JsonObject(<<"Good">>, ScoresObject(
                             UniformScores((AllCategories \ {"Overall"}) \cup {"Roundness"}, 3)))),
                         Reply(JsonObject(<<"Good">>, Absent)),
                         Reply(JsonObject(<<>>, ScoresObject(UniformScores(AllCategories, 4)))),
                         Unparsable } }

\* What the last deletion of chefs removed: the chefs' ids, the ids of their
\* pizzas and the ids of those pizzas' reviews, as they were before it.
Gone(chef_ids, pizza_ids, review_ids) ==
    [chefs |-> chef_ids, pizzas |-> pizza_ids, reviews |-> review_ids]

NoneGone == Gone({}, {}, {})

NoneIssued == [chefs |-> 0, submits |-> 0, deletes |-> 0, rejected |-> 0]

(***************************************************************************)
(* The three specifications.  Each leaves the variables of the others at   *)
(* their idle values.                                                      *)
(***************************************************************************)
\* Bounds on the processes that initialise the database and on the threads
\* of the background runner.
MaxProcesses == 3

MaxRuns == 3

MaxThreads == 2

Processes == 1..MaxProcesses

TaskIds == 1..MaxThreads

IdleSeeder == [pc |-> "idle", runs |-> 0]

IdleThread == [kind |-> "none", pc |-> "idle", gen |-> IdleGen, outcome |-> "none"]

RunIdle ==
    /\ seeders = [p \in Processes |-> IdleSeeder]
    /\ threads = [t \in TaskIds |-> IdleThread]
    /\ sessions = {}

GenIdle ==
    /\ gen = IdleGen
    /\ genEnv = [image |-> Image("garbage", "none"), prompt |-> "missing"]

RevIdle ==
    /\ rev = NoReview
    /\ revEnv = [paths |-> <<>>, chef_name |-> <<>>, table |-> [ok |-> FALSE, names |-> {}],
                 prompt |-> [exists |-> FALSE, pieces |-> <<>>], files |-> {}]

AppIdle ==
    /\ chefs = {} /\ pizzas = {} /\ images = {} /\ categories = {}
    /\ reviews = {} /\ scores = {} /\ files = {}
    /\ submits = {} /\ reviewTasks = {} /\ portraitTasks = {}
    /\ issued = NoneIssued
    /\ gone = NoneGone

GenInit ==
    /\ gen = IdleGen
    /\ genEnv \in [image : ReferenceImages, prompt : {"present", "missing"}]
    /\ RevIdle
    /\ AppIdle
    /\ RunIdle

GenCall ==
    /\ gen.pc = "idle"
    /\ gen' = GenEnter(genEnv.image, genEnv.prompt)
    /\ UNCHANGED <<runVars, genEnv, revVars, appVars>>

GenRemoteCall ==
    /\ gen.pc = "attempt"
    /\ \E o \in RemoteOutcomes : gen' = GenAttempt(gen, o)
    /\ UNCHANGED <<runVars, genEnv, revVars, appVars>>

GenBackoff ==
    /\ gen.pc = "sleep"
    /\ gen' = GenSleep(gen)
    /\ UNCHANGED <<runVars, genEnv, revVars, appVars>>

GenNext == GenCall \/ GenRemoteCall \/ GenBackoff

SpecGen == GenInit /\ [][GenNext]_vars

RevInit ==
    /\ rev = NoReview
    /\ revEnv \in [paths : PathLists, chef_name : ChefNames, table : Tables,
                   prompt : PromptFiles,
                   files : SUBSET { LocalPath(p) : p \in SomePaths }]
    /\ GenIdle
    /\ AppIdle
    /\ RunIdle

RevCall ==
    /\ rev.kind = "none"
    /\ \E o \in ReviewOutcomes :
         rev' = review_pizza_images(revEnv.paths, revEnv.chef_name, revEnv.table,
                                    revEnv.prompt, revEnv.files, o)
    /\ UNCHANGED <<runVars, revEnv, genVars, appVars>>

RevNext == RevCall

SpecReview == RevInit /\ [][RevNext]_vars

(***************************************************************************)
(* The application (app.py).  A handler or task is cut into steps at its   *)
(* commits: between two steps another request, a background task (run on   *)
(* a worker thread) or another process using the same database file can    *)
(* act.                                                                    *)
(***************************************************************************)
AppInit ==
    /\ chefs = {} /\ pizzas = {} /\ images = {}
    /\ categories = SeededCategories            \* init_db(), app.py:22
    /\ reviews = {} /\ scores = {} /\ files = {}
    /\ submits = {} /\ reviewTasks = {} /\ portraitTasks = {}
    /\ issued = NoneIssued
    /\ gone = NoneGone

PortraitTask(ticket, chef_id, content) ==
    [ticket |-> ticket, chef_id |-> chef_id, content |-> content,
     pc |-> "generate", bytes |-> NoBytes]

\* create_chef_submit (app.py:199-283).  Nothing it reads from the store
\* lies between its validation and its one commit, so it is one step.
\* failure: "none", the image file cannot be written, or the commit fails.
CreateChefSubmit(name, image, failure) ==
    /\ issued.chefs < MaxChefRequests
    /\ LET ticket == issued.chefs + 1
           rejected ==
               \/ Strip(name) = <<>>
               \/ HasFile(image) /\ ExtensionOf(image) \notin allowed_extensions
           temp_path == WebPath("chefs", "chef_temp", 0, 0, ticket, ExtensionOf(image))
           temp_image_path == IF HasFile(image) THEN <<temp_path>> ELSE <<>>
           chef == ChefRow(NextId(chefs), Strip(name), temp_image_path)
           should_process_ai == HasFile(image) /\ image.content.fmt # "empty"
       IN  IF rejected
           THEN /\ issued.rejected < MaxRejected
                /\ issued' = [issued EXCEPT !.rejected = @ + 1]
                /\ UNCHANGED <<chefs, files, portraitTasks>>
           ELSE IF failure = "file" /\ HasFile(image)
           THEN /\ issued' = [issued EXCEPT !.chefs = ticket]
                /\ UNCHANGED <<chefs, files, portraitTasks>>
           ELSE /\ issued' = [issued EXCEPT !.chefs = ticket]
                /\ files' = IF HasFile(image)
                            THEN files \cup {LocalPath(temp_path)} ELSE files
                /\ IF failure = "store"
                   THEN UNCHANGED <<chefs, portraitTasks>>
                   ELSE /\ chefs' = chefs \cup {chef}
                        /\ portraitTasks' =
                             IF should_process_ai
                             THEN portraitTasks \cup
                                    {PortraitTask(ticket, chef.id, image.content)}
                             ELSE portraitTasks
    /\ UNCHANGED <<runVars, pizzas, images, categories, reviews, scores, submits,
                   reviewTasks, gone, genVars, revVars>>

\* The outcomes of generate_chef_image a portrait task can meet: the whole
\* call, run on a script of remote outcomes.
RECURSIVE GenRun(_, _)
GenRun(g, script) ==
    IF g.pc = "done" THEN g
    ELSE IF g.pc = "sleep" THEN GenRun(GenSleep(g), script)
    ELSE GenRun(GenAttempt(g, Head(script)), Tail(script))

Failure(e) == [kind |-> "exception", err |-> e, b64 |-> <<>>]

Answer(p) == [kind |-> "response", err |-> "", b64 |-> p]

GenScripts ==
    { <<Answer(<<"A","Q","I","D">>), Failure("APIError"), Failure("APIError")>>,
      <<Failure("APIError"), Answer(<<"A","Q","I">>), Answer(<<"A","Q","I","D">>)>>,
      <<Failure("APIError"), Failure("APIError"), Failure("APITimeoutError")>> }

generate_chef_image(reference_image, prompt, script) ==
    GenRun(GenEnter(reference_image, prompt), script).result

\* Mutant of PortraitGenerate: a failed generation is not caught and takes
\* the pending tasks down with it.
PortraitGenerate_Escapes(t, prompt, script) ==
    /\ t \in portraitTasks
    /\ t.pc = "generate"
    /\ LET r == generate_chef_image(t.content, prompt, script)
       IN  IF r.kind = "returned"
           THEN /\ portraitTasks' =
                     (portraitTasks \ {t}) \cup {[t EXCEPT !.pc = "store", !.bytes = r.bytes]}
                /\ UNCHANGED reviewTasks
           ELSE /\ portraitTasks' = {}
                /\ reviewTasks' = {}
    /\ UNCHANGED <<runVars, tables, files, submits, issued, gone, genVars, revVars>>

\* process_chef_image_background, app.py:44-48 and 81-82.
PortraitGenerate(t, prompt, script) ==
    /\ t \in portraitTasks
    /\ t.pc = "generate"
    /\ LET r == generate_chef_image(t.content, prompt, script)
       IN  portraitTasks' =
             IF r.kind = "returned"
             THEN (portraitTasks \ {t}) \cup {[t EXCEPT !.pc = "store", !.bytes = r.bytes]}
             ELSE portraitTasks \ {t}
    /\ UNCHANGED <<runVars, tables, files, submits, reviewTasks, issued, gone, genVars, revVars>>

\* Mutant of PortraitStore: the new image_path stays when the commit fails.
PortraitStore_NoRollback(t, failure) ==
    /\ t \in portraitTasks
    /\ t.pc = "store"
    /\ LET ai_image_path == WebPath("chefs", "chef_ai", 0, 0, t.ticket, ".png")
           found == get_chef_by_id(t.chef_id)
       IN  /\ portraitTasks' = portraitTasks \ {t}
           /\ IF failure = "file"
              THEN UNCHANGED <<chefs, files>>
              ELSE /\ files' = files \cup {LocalPath(ai_image_path)}
                   /\ chefs' = (chefs \ found) \cup
                                { [c EXCEPT !.image_path = <<ai_image_path>>] :
                                    c \in found }
    /\ UNCHANGED <<runVars, pizzas, images, categories, reviews, scores, submits,
                   reviewTasks, issued, gone, genVars, revVars>>

\* Mutant of PortraitStore: a chef that is not found is inserted.
PortraitStore_Upsert(t, failure) ==
    /\ t \in portraitTasks
    /\ t.pc = "store"
    /\ LET ai_image_path == WebPath("chefs", "chef_ai", 0, 0, t.ticket, ".png")
           found == get_chef_by_id(t.chef_id)
       IN  /\ portraitTasks' = portraitTasks \ {t}
           /\ IF failure = "file"
              THEN UNCHANGED <<chefs, files>>
              ELSE /\ files' = files \cup {LocalPath(ai_image_path)}
                   /\ chefs' = IF failure = "store" THEN chefs
                               ELSE IF found = {}
                               THEN chefs \cup {ChefRow(t.chef_id, <<>>, <<ai_image_path>>)}
                               ELSE (chefs \ found) \cup
                                    { [c EXCEPT !.image_path = <<ai_image_path>>] :
                                        c \in found }
    /\ UNCHANGED <<runVars, pizzas, images, categories, reviews, scores, submits,
                   reviewTasks, issued, gone, genVars, revVars>>

\* process_chef_image_background, app.py:50-79: write the file, then one
\* session: look the chef up, set image_path, commit.
PortraitStore(t, failure) ==
    /\ t \in portraitTasks
    /\ t.pc = "store"
    /\ LET ai_image_path == WebPath("chefs", "chef_ai", 0, 0, t.ticket, ".png")
           found == get_chef_by_id(t.chef_id)
       IN  /\ portraitTasks' = portraitTasks \ {t}
           /\ IF failure = "file"
              THEN UNCHANGED <<chefs, files>>
              ELSE /\ files' = files \cup {LocalPath(ai_image_path)}
                   /\ chefs' = IF failure = "store" THEN chefs
                               ELSE (chefs \ found) \cup
                                    { [c EXCEPT !.image_path = <<ai_image_path>>] :
                                        c \in found }
    /\ UNCHANGED <<runVars, pizzas, images, categories, reviews, scores, submits,
                   reviewTasks, issued, gone, genVars, revVars>>

SubmitFrame(ticket, chef, parts) ==
    [ticket |-> ticket, pc |-> "create", chef_id |-> chef.id,
     chef_name |-> chef.name, parts |-> parts, pizza_id |-> 0, i |-> 1,
     paths |-> <<>>]

\* submit_pizza_handler, app.py:308-353: the chef lookup and the checks of
\* the uploaded parts.
SubmitValidate(chef_id, parts) ==
    /\ issued.submits < MaxSubmits
    /\ LET found == get_chef_by_id(chef_id)
           accepted ==
               /\ found # {}
               /\ ~(Len(parts) < 1 \/ Len(parts) > 3)
               /\ \A i \in 1..Len(parts) :
                    HasFile(parts[i]) => ExtensionOf(parts[i]) \in allowed_extensions
       IN  IF accepted
           THEN /\ issued' = [issued EXCEPT !.submits = @ + 1]
                /\ submits' = submits \cup
                     {SubmitFrame(issued.submits + 1, CHOOSE c \in found : TRUE, parts)}
           ELSE /\ issued.rejected < MaxRejected
                /\ issued' = [issued EXCEPT !.rejected = @ + 1]
                /\ UNCHANGED submits
    /\ UNCHANGED <<runVars, tables, files, reviewTasks, portraitTasks, gone, genVars, revVars>>

\* DatabaseManager.create_pizza, db.py:217-230: the row it commits (none when
\* the commit fails).  chef_id is not looked up.
create_pizza(chef_id, ok) ==
    IF ok THEN {PizzaRow(NextId(pizzas), chef_id)} ELSE {}

\* submit_pizza_handler, app.py:355-356 (and 391-401 when create_pizza raises).
SubmitCreatePizza(f, ok) ==
    /\ f \in submits
    /\ f.pc = "create"
    /\ LET created == create_pizza(f.chef_id, ok)
       IN  /\ pizzas' = pizzas \cup created
           /\ submits' = (submits \ {f}) \cup
                { [f EXCEPT !.pc = "images", !.pizza_id = p.id] : p \in created }
    /\ UNCHANGED <<runVars, chefs, images, categories, reviews, scores, files,
                   reviewTasks, portraitTasks, issued, gone, genVars, revVars>>

\* The parts still to be saved: those from index i on that carry a file.
Pending(f) == { k \in f.i..Len(f.parts) : HasFile(f.parts[k]) }

ReviewTask(ticket, pizza_id, image_paths, chef_name) ==
    [ticket |-> ticket, pizza_id |-> pizza_id, image_paths |-> image_paths,
     chef_name |-> chef_name, pc |-> "review", data |-> JsonArray,
     review_id |-> 0]

\* Mutant of SubmitSaveImage: when a picture cannot be stored the handler
\* goes on to schedule the review of the pictures stored so far.
SubmitSaveImage_SchedulesAnyway(f, failure) ==
    /\ f \in submits
    /\ f.pc = "images"
    /\ Pending(f) # {}
    /\ LET k == CHOOSE x \in Pending(f) : \A y \in Pending(f) : x <= y
           web_path == WebPath("pizzas", "pizza", f.pizza_id, k, f.ticket,
                               ExtensionOf(f.parts[k]))
       IN  /\ files' = IF failure = "file" THEN files
                       ELSE files \cup {LocalPath(web_path)}
           /\ images' = IF failure = "none"
                        THEN images \cup {ImageRow(NextId(images), f.pizza_id, web_path)}
                        ELSE images
           /\ submits' = IF failure = "none"
                         THEN (submits \ {f}) \cup
                                {[f EXCEPT !.i = k + 1, !.paths = Append(@, web_path)]}
                         ELSE submits \ {f}
           /\ reviewTasks' = IF failure = "none" THEN reviewTasks
                             ELSE reviewTasks \cup
                                    {ReviewTask(f.ticket, f.pizza_id, f.paths, f.chef_name)}
    /\ UNCHANGED <<runVars, chefs, pizzas, categories, reviews, scores,
                   portraitTasks, issued, gone, genVars, revVars>>

\* submit_pizza_handler, app.py:363-378: one pass of the loop over a part
\* that has a filename (parts without one are passed over).
SubmitSaveImage(f, failure) ==
    /\ f \in submits
    /\ f.pc = "images"
    /\ Pending(f) # {}
    /\ LET k == CHOOSE x \in Pending(f) : \A y \in Pending(f) : x <= y
           web_path == WebPath("pizzas", "pizza", f.pizza_id, k, f.ticket,
                               ExtensionOf(f.parts[k]))
       IN  /\ files' = IF failure = "file" THEN files
                       ELSE files \cup {LocalPath(web_path)}
           /\ images' = IF failure = "none"
                        THEN images \cup {ImageRow(NextId(images), f.pizza_id, web_path)}
                        ELSE images
           /\ submits' = IF failure = "none"
                         THEN (submits \ {f}) \cup
                                {[f EXCEPT !.i = k + 1, !.paths = Append(@, web_path)]}
                         ELSE submits \ {f}
    /\ UNCHANGED <<runVars, chefs, pizzas, categories, reviews, scores, reviewTasks,
                   portraitTasks, issued, gone, genVars, revVars>>

\* Mutant of SubmitSchedule: the review task is added twice.
SubmitSchedule_Twice(f) ==
    /\ f \in submits
    /\ f.pc = "images"
    /\ Pending(f) = {}
    /\ reviewTasks' = reviewTasks \cup
         { ReviewTask(f.ticket, f.pizza_id, f.paths, f.chef_name),
           ReviewTask(f.ticket + MaxSubmits, f.pizza_id, f.paths, f.chef_name) }
    /\ submits' = submits \ {f}
    /\ UNCHANGED <<runVars, tables, files, portraitTasks, issued, gone, genVars, revVars>>

\* Mutant of SubmitSchedule: the task is started while the handler is still
\* at work on the request.
SubmitSchedule_WhileHandling(f) ==
    /\ f \in submits
    /\ f.pc = "images"
    /\ reviewTasks' = reviewTasks \cup
         {ReviewTask(f.ticket, f.pizza_id, f.paths, f.chef_name)}
    /\ submits' = IF Pending(f) = {} THEN submits \ {f} ELSE submits
    /\ UNCHANGED <<runVars, tables, files, portraitTasks, issued, gone, genVars, revVars>>

\* submit_pizza_handler, app.py:380-389.
SubmitSchedule(f) ==
    /\ f \in submits
    /\ f.pc = "images"
    /\ Pending(f) = {}
    /\ reviewTasks' = reviewTasks \cup
         {ReviewTask(f.ticket, f.pizza_id, f.paths, f.chef_name)}
    /\ submits' = submits \ {f}
    /\ UNCHANGED <<runVars, tables, files, portraitTasks, issued, gone, genVars, revVars>>

\* process_pizza_review_background, app.py:406-410 and 447-448.
ReviewTaskCall(t, query_ok, prompt, outcome) ==
    /\ t \in reviewTasks
    /\ t.pc = "review"
    /\ LET table == [ok |-> query_ok,
                     names |-> IF query_ok THEN { c.name : c \in categories } ELSE {}]
           r == review_pizza_images(t.image_paths, t.chef_name, table, prompt,
                                    files, outcome)
       IN  reviewTasks' =
             IF r.kind = "returned"
             THEN (reviewTasks \ {t}) \cup {[t EXCEPT !.pc = "save", !.data = r.value]}
             ELSE reviewTasks \ {t}
    /\ UNCHANGED <<runVars, tables, files, submits, portraitTasks, issued, gone, genVars, revVars>>

\* Mutant of ReviewTaskSaveReview: the review is attached to the newest
\* pizza of the store instead of the task's own.
ReviewTaskSaveReview_NewestPizza(t, ok) ==
    /\ t \in reviewTasks
    /\ t.pc = "save"
    /\ LET id == NextId(reviews)
       IN  IF ~t.data.isObject \/ t.data.summary = <<>> \/ ~ok
           THEN /\ reviewTasks' = reviewTasks \ {t}
                /\ UNCHANGED reviews
           ELSE /\ reviews' = reviews \cup
                     {ReviewRow(id, Max(Ids(pizzas)), t.data.summary[1])}
                /\ reviewTasks' = (reviewTasks \ {t}) \cup
                     {[t EXCEPT !.pc = "scores", !.review_id = id]}
    /\ UNCHANGED <<runVars, chefs, pizzas, images, categories, scores, files, submits,
                   portraitTasks, issued, gone, genVars, revVars>>

\* process_pizza_review_background, app.py:413-422 (441-445 on an exception):
\* the PizzaReview row is built from review_data["review_summary"] and
\* committed on its own.
ReviewTaskSaveReview(t, ok) ==
    /\ t \in reviewTasks
    /\ t.pc = "save"
    /\ LET id == NextId(reviews)
       IN  IF ~t.data.isObject \/ t.data.summary = <<>> \/ ~ok
           THEN /\ reviewTasks' = reviewTasks \ {t}
                /\ UNCHANGED reviews
           ELSE /\ reviews' = reviews \cup
                     {ReviewRow(id, t.pizza_id, t.data.summary[1])}
                /\ reviewTasks' = (reviewTasks \ {t}) \cup
                     {[t EXCEPT !.pc = "scores", !.review_id = id]}
    /\ UNCHANGED <<runVars, chefs, pizzas, images, categories, scores, files, submits,
                   portraitTasks, issued, gone, genVars, revVars>>

\* process_pizza_review_background, app.py:424-445: the category query, one
\* PizzaReviewScore per known name of review_data["scores"], a second commit.
\* An exception rolls back what is pending, which no longer includes the
\* PizzaReview row.  failure: "none", "query" or "commit".
ReviewTaskSaveScores(t, failure) ==
    /\ t \in reviewTasks
    /\ t.pc = "scores"
    /\ LET rows == ScoreRowsFrom(t.review_id, t.data.scores.map, categories,
                                 NextId(scores))
       IN  /\ reviewTasks' = reviewTasks \ {t}
           /\ IF \/ failure # "none"
                 \/ ~t.data.scores.present
                 \/ ~t.data.scores.isObject
              THEN UNCHANGED scores
              ELSE scores' = scores \cup rows
    /\ UNCHANGED <<runVars, chefs, pizzas, images, categories, reviews, files, submits,
                   portraitTasks, issued, gone, genVars, revVars>>

\* Deleting a Chef object through a session: the delete cascades along
\* Chef.pizzas, Pizza.images, Pizza.review and PizzaReview.scores
\* (cascade="all, delete-orphan", db.py:23, 38, 39, 83).  loaded: the reviews
\* Pizza.review loads for the chef's pizzas.
DeleteChef(c, loaded) ==
    /\ c \in chefs
    /\ issued.deletes < MaxDeletes
    /\ issued' = [issued EXCEPT !.deletes = @ + 1]
    /\ loaded \in ReviewLoads(Ids(PizzasOf({c.id})))
    /\ chefs' = chefs \ {c}
    /\ pizzas' = pizzas \ PizzasOf({c.id})
    /\ images' = images \ ImagesOf(Ids(PizzasOf({c.id})))
    /\ reviews' = reviews \ loaded
    /\ scores' = scores \ ScoresOf(Ids(loaded))
    /\ gone' = Gone({c.id}, Ids(PizzasOf({c.id})),
                    Ids(ReviewsOf(Ids(PizzasOf({c.id})))))
    /\ UNCHANGED <<runVars, categories, files, submits, reviewTasks, portraitTasks,
                   genVars, revVars>>

\* seed_dummy_data, seed_db_with_dummy_data.py:17-26, run by another process
\* on the same database file: when there is a chef, every row of the five
\* tables is deleted in one transaction.
ClearExistingData ==
    /\ chefs # {}
    /\ issued.deletes < MaxDeletes
    /\ issued' = [issued EXCEPT !.deletes = @ + 1]
    /\ scores' = {} /\ reviews' = {} /\ images' = {} /\ pizzas' = {} /\ chefs' = {}
    /\ gone' = Gone(Ids(chefs), Ids(PizzasOf(Ids(chefs))),
                    Ids(ReviewsOf(Ids(PizzasOf(Ids(chefs))))))
    /\ UNCHANGED <<runVars, categories, files, submits, reviewTasks, portraitTasks,
                   genVars, revVars>>

Failures == {"none", "file", "store"}

\* The requests the application serves and the background tasks they start.
RequestNext ==
    \/ \E name \in ChefNameInputs, image \in ChefImageInputs, failure \in Failures :
         CreateChefSubmit(name, image, failure)
    \/ \E t \in portraitTasks, prompt \in {"present", "missing"}, script \in GenScripts :
         PortraitGenerate(t, prompt, script)
    \/ \E t \in portraitTasks, failure \in Failures : PortraitStore(t, failure)
    \/ \E chef_id \in Ids(chefs) \cup {NextId(chefs)}, parts \in PizzaImageInputs :
         SubmitValidate(chef_id, parts)
    \/ \E f \in submits, ok \in BOOLEAN : SubmitCreatePizza(f, ok)
    \/ \E f \in submits, failure \in Failures : SubmitSaveImage(f, failure)
    \/ \E f \in submits : SubmitSchedule(f)
    \/ \E t \in reviewTasks, query_ok \in BOOLEAN, prompt \in PromptFiles,
          outcome \in TaskOutcomes :
         ReviewTaskCall(t, query_ok, prompt, outcome)
    \/ \E t \in reviewTasks, ok \in BOOLEAN : ReviewTaskSaveReview(t, ok)
    \/ \E t \in reviewTasks, failure \in {"none", "query", "commit"} :
         ReviewTaskSaveScores(t, failure)

\* The application together with deletions of chefs.
Next ==
    \/ RequestNext
    \/ \E c \in chefs, loaded \in SUBSET reviews : DeleteChef(c, loaded)
    \/ ClearExistingData

\* The application after start-up, no gateway call under way.
Init == AppInit /\ GenIdle /\ RevIdle /\ RunIdle

Spec == Init /\ [][Next]_vars

\* The application on its own: no chef is ever deleted.
SpecRequests == Init /\ [][RequestNext]_vars

\* Chef creation and the portrait tasks, started on a database file that may
\* hold chefs of an earlier run: one without a picture, one with the
\* portrait an earlier task stored, one still with its uploaded picture.
EarlierPortrait == WebPath("chefs", "chef_ai", 0, 0, 0, ".png")

EarlierUpload == WebPath("chefs", "chef_temp", 0, 0, 0, ".gif")

EarlierChefs ==
    { ChefRow(1, <<"M">>, <<>>),
      ChefRow(2, <<"L">>, <<EarlierPortrait>>),
      ChefRow(3, <<"P">>, <<EarlierUpload>>) }

ChefsInit ==
    /\ chefs \in SUBSET EarlierChefs
    /\ files = { LocalPath(c.image_path[1]) : c \in { x \in chefs : x.image_path # <<>> } }
    /\ pizzas = {} /\ images = {}
    /\ categories = SeededCategories
    /\ reviews = {} /\ scores = {}
    /\ submits = {} /\ reviewTasks = {} /\ portraitTasks = {}
    /\ issued = NoneIssued
    /\ gone = NoneGone
    /\ GenIdle
    /\ RevIdle
    /\ RunIdle

ChefsNext ==
    \/ \E name \in ChefNameInputs, image \in ChefImageInputs, failure \in Failures :
         CreateChefSubmit(name, image, failure)
    \/ \E t \in portraitTasks, prompt \in {"present", "missing"}, script \in GenScripts :
         PortraitGenerate(t, prompt, script)
    \/ \E t \in portraitTasks, failure \in Failures : PortraitStore(t, failure)

SpecChefs == ChefsInit /\ [][ChefsNext]_vars

(***************************************************************************)
(* The leaderboard query (app.py:494-514).  It reads the store in one      *)
(* statement and writes nothing, so it is an operator on the tables: the   *)
(* set of result lists the query can return (rows of equal average come    *)
(* in an order SQL leaves open).                                           *)
(***************************************************************************)
\* The score rows the two joins reach from a pizza (app.py:501-502).
ScoresOfPizza(pizza_id) == ScoresOf(Ids(ReviewsOf({pizza_id})))

RECURSIVE SumScores(_)
SumScores(rows) ==
    IF rows = {} THEN 0
    ELSE LET r == CHOOSE x \in rows : TRUE
         IN  r.score + SumScores(rows \ {r})

\* func.avg over a group, kept as the exact fraction sum/count.  The scores
\* are small integers, so the floating-point averages SQLite compares are
\* ordered as the fractions are.
Avg(rows) == [sum |-> SumScores(rows), count |-> Cardinality(rows)]

AvgLeq(a, b) == a.sum * b.count <= b.sum * a.count

\* group_by(Pizza.id) over the inner joins: one row per pizza that has a
\* joined score row.
ScoredPizzas ==
    { [pizza_id |-> p.id, avg_score |-> Avg(ScoresOfPizza(p.id))] :
        p \in { q \in pizzas : ScoresOfPizza(q.id) # {} } }

\* The lists holding each row of S once.
Listings(S) ==
    { f \in [1..Cardinality(S) -> S] :
        \A i, j \in DOMAIN f : (i # j) => (f[i] # f[j]) }

\* order_by(func.avg(...).desc()): no row has a smaller average than the
\* one after it.
Descending(f) ==
    \A i \in 1..(Len(f) - 1) : AvgLeq(f[i + 1].avg_score, f[i].avg_score)

Ascending(f) ==
    \A i \in 1..(Len(f) - 1) : AvgLeq(f[i].avg_score, f[i + 1].avg_score)

\* .limit(10), app.py:505.
leaderboard_limit == 10

Limit(f, n) == SubSeq(f, 1, IF Len(f) < n THEN Len(f) ELSE n)

\* Mutants of leaderboard: ordered ascending; outer joins, which keep the
\* pizzas without a score row (their average taken as 0).
leaderboard_Ascending ==
    { Limit(f, leaderboard_limit) :
        f \in { g \in Listings(ScoredPizzas) : Ascending(g) } }

leaderboard_OuterJoin ==
    { Limit(f, leaderboard_limit) :
        f \in { g \in Listings({ [pizza_id |-> p.id,
                                    avg_score |-> IF ScoresOfPizza(p.id) = {}
                                                  THEN [sum |-> 0, count |-> 1]
                                                  ELSE Avg(ScoresOfPizza(p.id))] :
                                       p \in pizzas }) : Descending(g) } }

\* leaderboard, app.py:494-514: the (pizza, avg_score) pairs handed to the
\* template.
leaderboard ==
    { Limit(f, leaderboard_limit) :
        f \in { g \in Listings(ScoredPizzas) : Descending(g) } }

(***************************************************************************)
(* The store's own operations, called directly (db.py:177-190, 217-230).   *)
(***************************************************************************)
MaxStoreRows == 2

\* DatabaseManager.create_chef, db.py:177-190: the row it commits (none when
\* the commit fails).  name is stored as given.
create_chef(name, image_path, ok) ==
    IF ok THEN {ChefRow(NextId(chefs), name, image_path)} ELSE {}

CallCreateChef(name, image_path, ok) ==
    /\ Cardinality(chefs) < MaxStoreRows
    /\ chefs' = chefs \cup create_chef(name, image_path, ok)
    /\ UNCHANGED <<runVars, pizzas, images, categories, reviews, scores, files, submits,
                   reviewTasks, portraitTasks, issued, gone, genVars, revVars>>

CallCreatePizza(chef_id, ok) ==
    /\ Cardinality(pizzas) < MaxStoreRows
    /\ pizzas' = pizzas \cup create_pizza(chef_id, ok)
    /\ UNCHANGED <<runVars, chefs, images, categories, reviews, scores, files, submits,
                   reviewTasks, portraitTasks, issued, gone, genVars, revVars>>

StoreNames == { <<>>, <<" ">>, <<"L", "u">> }

StoreNext ==
    \/ \E name \in StoreNames, image_path \in {<<>>, <<EarlierUpload>>},
          ok \in BOOLEAN :
         CallCreateChef(name, image_path, ok)
    \/ \E chef_id \in 1..(MaxStoreRows + 1), ok \in BOOLEAN :
         CallCreatePizza(chef_id, ok)

SpecStore == Init /\ [][StoreNext]_vars

(***************************************************************************)
(* process_pizza_review_background called directly (app.py:404-448), on a  *)
(* store that holds one chef and one pizza of theirs with its picture.     *)
(***************************************************************************)
RecordedPicture == WebPath("pizzas", "pizza", 1, 1, 0, ".jpg")

RecordInit ==
    /\ chefs = {ChefRow(1, <<"M">>, <<>>)}
    /\ pizzas = {PizzaRow(1, 1)}
    /\ images = {ImageRow(1, 1, RecordedPicture)}
    /\ files = {LocalPath(RecordedPicture)}
    /\ categories = SeededCategories
    /\ reviews = {} /\ scores = {}
    /\ submits = {} /\ reviewTasks = {} /\ portraitTasks = {}
    /\ issued = NoneIssued
    /\ gone = NoneGone
    /\ GenIdle
    /\ RevIdle
    /\ RunIdle

\* One call of process_pizza_review_background(pizza_id, image_paths,
\* chef_name) begins; issued.submits numbers the calls.
CallReviewTask(p) ==
    /\ p \in pizzas
    /\ issued.submits < MaxSubmits
    /\ issued' = [issued EXCEPT !.submits = @ + 1]
    /\ reviewTasks' = reviewTasks \cup
         { ReviewTask(issued.submits + 1, p.id, <<i.image_path>>, c.name) :
             i \in ImagesOf({p.id}), c \in get_chef_by_id(p.chef_id) }
    /\ UNCHANGED <<runVars, tables, files, submits, portraitTasks, gone, genVars, revVars>>

RecordNext ==
    \/ \E p \in pizzas : CallReviewTask(p)
    \/ \E t \in reviewTasks, query_ok \in BOOLEAN, prompt \in PromptFiles,
          outcome \in TaskOutcomes :
         ReviewTaskCall(t, query_ok, prompt, outcome)
    \/ \E t \in reviewTasks, ok \in BOOLEAN : ReviewTaskSaveReview(t, ok)
    \/ \E t \in reviewTasks, failure \in {"none", "query", "commit"} :
         ReviewTaskSaveScores(t, failure)

SpecRecord == RecordInit /\ [][RecordNext]_vars

(***************************************************************************)
(* Start-up (db.py:122-156).  Every process that imports the application   *)
(* (app.py:22) or runs the seeding script (seed_db_with_dummy_data.py:148) *)
(* calls initialize_database on the same database file.  A run is cut at   *)
(* its one commit: the count is read, then the six rows are written in one *)
(* transaction.                                                            *)
(***************************************************************************)
\* The rows session.add_all(categories) inserts into a table (db.py:132-141).
SeedRows(table) ==
    { CategoryRow(NextId(table) + i - 1, SeedCategoryNames[i]) :
        i \in 1..Len(SeedCategoryNames) }

\* Mutant of UniqueViolation: the name column carries no unique constraint.
UniqueViolation_Never(table, rows) == FALSE

\* ReviewCategory.name is unique (db.py:64): an insert of a name the table
\* already holds fails with IntegrityError.
UniqueViolation(table, rows) ==
    \E r \in rows, c \in table : c.name = r.name

SeedInit == AppIdle /\ GenIdle /\ RevIdle /\ RunIdle

\* seed_database, db.py:122-129: a run begins and reads the row count; with
\* rows present it returns at once (the finally clause closes the session).
SeedCount(p) ==
    /\ seeders[p].pc \in {"idle", "done", "raised"}
    /\ seeders[p].runs < MaxRuns
    /\ seeders' = [seeders EXCEPT ![p] =
                     IF Cardinality(categories) > 0
                     THEN [pc |-> "done", runs |-> @.runs + 1]
                     ELSE [pc |-> "insert", runs |-> @.runs]]
    /\ UNCHANGED <<threads, sessions, appVars, genVars, revVars>>

\* seed_database, db.py:131-151: add_all and commit; on an exception the
\* transaction is rolled back and the exception raised again.
SeedCommit(p) ==
    /\ seeders[p].pc = "insert"
    /\ IF UniqueViolation(categories, SeedRows(categories))
       THEN /\ seeders' = [seeders EXCEPT ![p] = [pc |-> "raised", runs |-> @.runs + 1]]
            /\ UNCHANGED categories
       ELSE /\ seeders' = [seeders EXCEPT ![p] = [pc |-> "done", runs |-> @.runs + 1]]
            /\ categories' = categories \cup SeedRows(categories)
    /\ UNCHANGED <<threads, sessions, chefs, pizzas, images, reviews, scores, files,
                   submits, reviewTasks, portraitTasks, issued, gone, genVars, revVars>>

SeedNext == \E p \in Processes : SeedCount(p) \/ SeedCommit(p)

SpecSeed == SeedInit /\ [][SeedNext]_vars

(***************************************************************************)
(* The background runner (app.py:42-83, 404-448; ai.py:15-170), seen at    *)
(* the grain of its blocking calls.  Each task runs on a thread of its own *)
(* once its request has returned; a thread is cut where it opens or closes *)
(* a store session, sends a remote call, gets the answer, or sleeps.       *)
(***************************************************************************)
\* What a remote call of a portrait thread can do.
ThreadOutcomes == { Failure("APIError"), Answer(<<"A","Q","I","D">>) }

\* A thread that ended: its result written to the store, or a failure
\* printed by one of the except clauses.
Finished(th, outcome) == [th EXCEPT !.pc = "done", !.outcome = outcome]

\* background_tasks.add_task, app.py:263-269 and 381-386.
Schedule(t, kind) ==
    /\ threads[t].pc = "idle"
    /\ threads' = [threads EXCEPT ![t] = [@ EXCEPT !.kind = kind, !.pc = "start"]]
    /\ UNCHANGED <<seeders, sessions, appVars, genVars, revVars>>

\* review_pizza_images, ai.py:93: the session of the category query opens.
ReviewOpenCategories(t) ==
    /\ threads[t].kind = "review"
    /\ threads[t].pc = "start"
    /\ threads' = [threads EXCEPT ![t].pc = "categories"]
    /\ sessions' = sessions \cup {t}
    /\ UNCHANGED <<seeders, appVars, genVars, revVars>>

\* Mutant of ReviewPrepare: the session of the category query is left open.
ReviewPrepare_KeepsSession(t, query_ok, prompt_ok, readable) ==
    /\ threads[t].kind = "review"
    /\ threads[t].pc = "categories"
    /\ UNCHANGED sessions
    /\ threads' = [threads EXCEPT ![t] =
                     IF ~query_ok \/ ~prompt_ok THEN Finished(@, "logged")
                     ELSE IF ~readable THEN [@ EXCEPT !.pc = "returned"]
                     ELSE [@ EXCEPT !.pc = "remote"]]
    /\ UNCHANGED <<seeders, appVars, genVars, revVars>>

\* review_pizza_images, ai.py:94-166: the query runs and the finally clause
\* closes the session; the prompt is loaded and the images are read; with no
\* readable image the function returns, otherwise the remote call is sent.
\* An exception on the way ends the task in its except clause (app.py:447).
ReviewPrepare(t, query_ok, prompt_ok, readable) ==
    /\ threads[t].kind = "review"
    /\ threads[t].pc = "categories"
    /\ sessions' = sessions \ {t}
    /\ threads' = [threads EXCEPT ![t] =
                     IF ~query_ok \/ ~prompt_ok THEN Finished(@, "logged")
                     ELSE IF ~readable THEN [@ EXCEPT !.pc = "returned"]
                     ELSE [@ EXCEPT !.pc = "remote"]]
    /\ UNCHANGED <<seeders, appVars, genVars, revVars>>

\* Mutant of ReviewRemoteReturn: a failed call starts the review over.
ReviewRemoteReturn_StartsOver(t, ok) ==
    /\ threads[t].kind = "review"
    /\ threads[t].pc = "remote"
    /\ threads' = [threads EXCEPT ![t] =
                     IF ok THEN [@ EXCEPT !.pc = "returned"]
                     ELSE [@ EXCEPT !.pc = "start"]]
    /\ UNCHANGED <<seeders, sessions, appVars, genVars, revVars>>

\* review_pizza_images, ai.py:160-170: the remote call returns a reply that
\* parses, or it raises or the reply does not parse (app.py:447).
ReviewRemoteReturn(t, ok) ==
    /\ threads[t].kind = "review"
    /\ threads[t].pc = "remote"
    /\ threads' = [threads EXCEPT ![t] =
                     IF ok THEN [@ EXCEPT !.pc = "returned"]
                     ELSE Finished(@, "logged")]
    /\ UNCHANGED <<seeders, sessions, appVars, genVars, revVars>>

\* process_pizza_review_background, app.py:413.
ReviewOpenSession(t) ==
    /\ threads[t].kind = "review"
    /\ threads[t].pc = "returned"
    /\ threads' = [threads EXCEPT ![t].pc = "save"]
    /\ sessions' = sessions \cup {t}
    /\ UNCHANGED <<seeders, appVars, genVars, revVars>>

\* process_pizza_review_background, app.py:414-445: the two commits, or the
\* rollback of the except clause; the finally clause closes the session.
ReviewSave(t, ok) ==
    /\ threads[t].kind = "review"
    /\ threads[t].pc = "save"
    /\ threads' = [threads EXCEPT ![t] =
                     Finished(@, IF ok THEN "written" ELSE "logged")]
    /\ sessions' = sessions \ {t}
    /\ UNCHANGED <<seeders, appVars, genVars, revVars>>

\* process_chef_image_background, app.py:48 into generate_chef_image,
\* ai.py:15-55: up to the first remote call (sent when the step ends).
PortraitEnter(t, prompt) ==
    /\ threads[t].kind = "portrait"
    /\ threads[t].pc = "start"
    /\ LET g == GenEnter(Image("JPEG", "RGB"), prompt)
       IN  threads' = [threads EXCEPT ![t] =
                         IF g.pc = "done" THEN Finished([@ EXCEPT !.gen = g], "logged")
                         ELSE [@ EXCEPT !.pc = "generate", !.gen = g]]
    /\ UNCHANGED <<seeders, sessions, appVars, genVars, revVars>>

\* generate_chef_image, ai.py:55-72: the remote call comes back.  A success
\* returns to the task, the last failure is raised into its except clause
\* (app.py:81), any other failure starts the wait.
PortraitRemoteReturn(t, o) ==
    /\ threads[t].kind = "portrait"
    /\ threads[t].pc = "generate"
    /\ threads[t].gen.pc = "attempt"
    /\ LET g == GenAttempt(threads[t].gen, o)
       IN  threads' = [threads EXCEPT ![t] =
                         IF g.pc = "sleep" THEN [@ EXCEPT !.gen = g]
                         ELSE IF g.result.kind = "returned"
                         THEN [@ EXCEPT !.pc = "file", !.gen = g]
                         ELSE Finished([@ EXCEPT !.gen = g], "logged")]
    /\ UNCHANGED <<seeders, sessions, appVars, genVars, revVars>>

\* generate_chef_image, ai.py:74-77: time.sleep returns and the next remote
\* call is sent.
PortraitWake(t) ==
    /\ threads[t].kind = "portrait"
    /\ threads[t].pc = "generate"
    /\ threads[t].gen.pc = "sleep"
    /\ threads' = [threads EXCEPT ![t].gen = GenSleep(@)]
    /\ UNCHANGED <<seeders, sessions, appVars, genVars, revVars>>

\* process_chef_image_background, app.py:50-66: the portrait file is
\* written, then the session opens; a failed write ends the task (app.py:81).
PortraitOpenSession(t, file_ok) ==
    /\ threads[t].kind = "portrait"
    /\ threads[t].pc = "file"
    /\ threads' = [threads EXCEPT ![t] =
                     IF file_ok THEN [@ EXCEPT !.pc = "update"]
                     ELSE Finished(@, "logged")]
    /\ sessions' = IF file_ok THEN sessions \cup {t} ELSE sessions
    /\ UNCHANGED <<seeders, appVars, genVars, revVars>>

\* process_chef_image_background, app.py:67-79: the update is committed, or
\* the chef is not found or the commit fails (both printed); the finally
\* clause closes the session.
PortraitUpdate(t, ok) ==
    /\ threads[t].kind = "portrait"
    /\ threads[t].pc = "update"
    /\ threads' = [threads EXCEPT ![t] =
                     Finished(@, IF ok THEN "written" ELSE "logged")]
    /\ sessions' = sessions \ {t}
    /\ UNCHANGED <<seeders, appVars, genVars, revVars>>

\* The steps of the task on thread t.
ThreadStep(t) ==
    \/ ReviewOpenCategories(t)
    \/ \E query_ok, prompt_ok, readable \in BOOLEAN :
         ReviewPrepare(t, query_ok, prompt_ok, readable)
    \/ \E ok \in BOOLEAN : ReviewRemoteReturn(t, ok)
    \/ ReviewOpenSession(t)
    \/ \E ok \in BOOLEAN : ReviewSave(t, ok)
    \/ \E prompt \in {"present", "missing"} : PortraitEnter(t, prompt)
    \/ \E o \in ThreadOutcomes : PortraitRemoteReturn(t, o)
    \/ PortraitWake(t)
    \/ \E file_ok \in BOOLEAN : PortraitOpenSession(t, file_ok)
    \/ \E ok \in BOOLEAN : PortraitUpdate(t, ok)

ThreadsNext ==
    \E t \in TaskIds :
        \/ \E kind \in {"review", "portrait"} : Schedule(t, kind)
        \/ ThreadStep(t)

SpecThreads == Init /\ [][ThreadsNext]_vars

\* The runner gives every scheduled task its thread, a remote call comes
\* back or fails, and a sleep ends: a thread that can step does step.
SpecThreadsLive ==
    Init /\ [][ThreadsNext]_vars /\ \A t \in TaskIds : WF_vars(ThreadStep(t))

(***************************************************************************)
(* Claims about generate_chef_image, under SpecGen.                        *)
(***************************************************************************)
AttemptFailed(i) == AttemptError(gen.calls[i]) # ""

\* C1: at most 3 remote calls are made; the function stops at the first call
\* whose attempt succeeds and returns the bytes decoded from that call's
\* payload; nothing is called after a success.
C1_AtMostThreeCalls ==
    /\ Len(gen.calls) <= 3
    /\ \A i \in 1..Len(gen.calls) :
         ~AttemptFailed(i) =>
            /\ i = Len(gen.calls)
            /\ gen.pc = "done"
            /\ gen.result = Returned(b64decode(gen.calls[i].b64))
    /\ gen.result.kind = "returned" =>
         /\ gen.calls # <<>>
         /\ ~AttemptFailed(Len(gen.calls))

\* Two failures, then a payload decoding to the bytes 1 2 3 on the third call.
C1_Witness ==
    /\ Len(gen.calls) = 3
    /\ gen.calls[1].kind = "exception"
    /\ gen.calls[2].kind = "exception"
    /\ gen.calls[3].b64 = <<"A","Q","I","D">>
    /\ gen.result = Returned(<<1, 2, 3>>)

\* C2: the waits are 2 then 4; a wait happens only between a failed attempt
\* and the next attempt: none before the first attempt, none after a
\* successful attempt, none after the third failure.
C2_BackoffSchedule ==
    /\ Len(gen.sleeps) <= 2
    /\ \A i \in 1..Len(gen.sleeps) : gen.sleeps[i] = 2 ^ i /\ AttemptFailed(i)
    /\ gen.pc = "idle" => gen.sleeps = <<>> /\ gen.calls = <<>>
    /\ gen.pc = "attempt" => Len(gen.sleeps) = Len(gen.calls)
    /\ gen.pc = "sleep" =>
         /\ Len(gen.sleeps) = Len(gen.calls) - 1
         /\ AttemptFailed(Len(gen.calls))
         /\ Len(gen.calls) < 3
    /\ gen.pc = "done" /\ gen.calls # <<>> =>
         Len(gen.sleeps) = Len(gen.calls) - 1

\* Three failures: waits of 2 and 4, and none after the last failure.
C2_Witness ==
    /\ gen.pc = "done"
    /\ Len(gen.calls) = 3
    /\ gen.result.kind = "raised"
    /\ gen.sleeps = <<2, 4>>

\* C3: when all 3 attempts fail the function returns no value: it raises the
\* failure of the third attempt.
C3_FinalFailurePropagates ==
    (Len(gen.calls) = 3 /\ \A i \in 1..3 : AttemptFailed(i)) =>
        /\ gen.pc = "done"
        /\ gen.result = Raised(AttemptError(gen.calls[3]))

\* Three different failures; the third one's is raised.
C3_Witness ==
    /\ Len(gen.calls) = 3
    /\ gen.calls[1].err = "APIError"
    /\ gen.calls[2].kind = "response"
    /\ gen.calls[3].err = "APITimeoutError"
    /\ gen.result = Raised("APITimeoutError")

(***************************************************************************)
(* Claims about review_pizza_images, under SpecReview.                     *)
(***************************************************************************)
NoneReadable ==
    \A i \in 1..Len(revEnv.paths) : LocalPath(revEnv.paths[i]) \notin revEnv.files

PromptLoads == revEnv.prompt.exists /\ FormatOk(revEnv.prompt.pieces)

\* C8 as claimed: with no readable image the call returns the no-images
\* review, whatever the prompt file is.
C8_Claimed ==
    (rev.kind # "none" /\ NoneReadable /\ revEnv.table.ok) =>
        /\ rev.kind = "returned"
        /\ rev.value.summary = <<NoImagesSummary>>
        /\ rev.requests = <<>>

\* C8, amended: with no readable image no remote call is made; the call
\* returns the summary "No images supplied for review." with every known
\* category mapped to 0 when the category query succeeds and the prompt file
\* exists and formats with chef_name, and raises that step's error otherwise.
C8_NoImagesNoRemoteCall ==
    (rev.kind # "none" /\ NoneReadable) =>
        /\ rev.requests = <<>>
        /\ (revEnv.table.ok /\ PromptLoads) =>
              /\ rev.kind = "returned"
              /\ rev.value.isObject
              /\ rev.value.summary = <<"No images supplied for review.">>
              /\ rev.value.scores.isObject
              /\ DOMAIN rev.value.scores.map = revEnv.table.names
              /\ \A c \in revEnv.table.names : rev.value.scores.map[c] = 0
        /\ ~(revEnv.table.ok /\ PromptLoads) =>
              /\ rev.kind = "raised"
              /\ rev.err = (IF ~revEnv.table.ok THEN "OperationalError"
                            ELSE IF ~revEnv.prompt.exists THEN "FileNotFoundError"
                            ELSE "KeyError")

\* Two paths given, neither readable, six categories: six zeros come back.
C8_Witness ==
    /\ Len(revEnv.paths) = 2
    /\ NoneReadable
    /\ rev.kind = "returned"
    /\ rev.value.scores.map = [c \in AllCategories |-> 0]
    /\ rev.requests = <<>>

(***************************************************************************)
(* Claims about the application, under Spec.                               *)
(***************************************************************************)
\* A parsed reply that lacks the shape callers read: not an object, or an
\* object without review_summary, or without a scores object.
Misshapen(data) ==
    \/ ~data.isObject
    \/ data.summary = <<>>
    \/ ~data.scores.present
    \/ ~data.scores.isObject

\* The rows a review task has written: the review with the task's review_id
\* and that review's scores.
WrittenBy(t) ==
    { r \in reviews : t.review_id # 0 /\ r.id = t.review_id /\ r.pizza_id = t.pizza_id }

\* C4: a review task whose reply does not have the expected shape (for
\* example review_summary without scores) persists no PizzaReview row and no
\* PizzaReviewScore row: no step of such a task changes either table.
C4_MalformedPersistsNothing ==
    [][\A t \in reviewTasks :
         (t.pc # "review" /\ Misshapen(t.data) /\ t \notin reviewTasks') =>
             (reviews' = reviews /\ scores' = scores)]_vars

\* C5: when the store fails while a review task writes the review and its
\* scores, the whole write is rolled back: afterwards the store holds
\* neither the task's PizzaReview row nor any score of it.
C5_StoreFailureRollsBack ==
    [][\A t \in reviewTasks : \A failure \in {"query", "commit"} :
         (~Misshapen(t.data) /\ ReviewTaskSaveScores(t, failure)) =>
             /\ WrittenBy(t)' = {}
             /\ ScoresOf({t.review_id})' = {}]_vars

\* C6: in every committed state every PizzaReview row has exactly one
\* PizzaReviewScore row per ReviewCategory.
C6_OneScorePerCategory ==
    \A r \in reviews : \A c \in categories :
        Cardinality({ s \in scores : s.pizza_review_id = r.id
                                     /\ s.category_id = c.id }) = 1

\* C7: every PizzaReviewScore row has a score in 1..5, except the rows of
\* the no-images review, whose score is 0.
C7_ScoreRange ==
    \A s \in scores :
        \/ s.score \in 1..5
        \/ /\ s.score = 0
           /\ \A r \in reviews :
                (r.id = s.pizza_review_id) => (r.review_summary = NoImagesSummary)

\* C9: after chefs are deleted the store holds no Pizza of a deleted chef, no
\* PizzaImage and no PizzaReview of a pizza that was theirs, and no
\* PizzaReviewScore of a review that was theirs (ids given out again to new
\* rows aside).
C9_NoDependentsAfterDelete ==
    /\ \A p \in pizzas :
         (p.chef_id \in gone.chefs) => (p.chef_id \in Ids(chefs))
    /\ \A i \in images :
         (i.pizza_id \in gone.pizzas) => (i.pizza_id \in Ids(pizzas))
    /\ \A r \in reviews :
         (r.pizza_id \in gone.pizzas) => (r.pizza_id \in Ids(pizzas))
    /\ \A s \in scores :
         (s.pizza_review_id \in gone.reviews) => (s.pizza_review_id \in Ids(reviews))

\* C10: a Pizza row is only ever created for a chef_id that matches an
\* existing Chef at that moment.
C10_PizzaCreatedForExistingChef ==
    [][\A p \in pizzas' \ pizzas : get_chef_by_id(p.chef_id) # {}]_vars

(***************************************************************************)
(* Claims about the store's operations, under SpecStore.                   *)
(***************************************************************************)
\* C11: creating a chef with an empty name fails and persists nothing, so no
\* Chef row has an empty name.
C11_NoEmptyChefName == \A c \in chefs : c.name # <<>>

\* C12, under SpecRecord: recording a review a second time for a pizza does
\* not duplicate scores; the pizza still has at most one PizzaReviewScore
\* per category.
C12_NoDuplicateScores ==
    \A p \in pizzas : \A c \in categories :
        Cardinality({ s \in ScoresOfPizza(p.id) : s.category_id = c.id }) <= 1

(***************************************************************************)
(* Claims about the requests and their background tasks, under             *)
(* SpecRequests.                                                           *)
(***************************************************************************)
\* C13: each accepted submit-pizza request has its review task run at most
\* once: at most one task exists per pizza, a pizza whose task has not yet
\* saved its review has none, and every pizza has at most one PizzaReview.
C13_ReviewAtMostOnce ==
    /\ \A t, u \in reviewTasks : (t.pizza_id = u.pizza_id) => (t = u)
    /\ \A t \in reviewTasks :
          IF t.pc = "scores"
          THEN Ids(ReviewsOf({t.pizza_id})) = {t.review_id}
          ELSE ReviewsOf({t.pizza_id}) = {}
    /\ \A f \in submits :
          /\ ReviewsOf({f.pizza_id}) = {}
          /\ \A t \in reviewTasks : t.pizza_id # f.pizza_id
    /\ \A p \in pizzas : Cardinality(ReviewsOf({p.id})) <= 1

\* Two submissions were reviewed: two pizzas, one review each, no task left.
C13_Witness ==
    /\ Cardinality(pizzas) = 2
    /\ \A p \in pizzas : Cardinality(ReviewsOf({p.id})) = 1
    /\ reviewTasks = {} /\ submits = {}

\* The task frames a step takes away or replaces, and those it adds for a
\* task that had none before.
FramesTouched ==
    (reviewTasks \ reviewTasks') \cup (portraitTasks \ portraitTasks')

NewReviewTasks ==
    { t \in reviewTasks' : \A u \in reviewTasks : u.ticket # t.ticket }

NewPortraitTasks ==
    { t \in portraitTasks' : \A u \in portraitTasks : u.ticket # t.ticket }

\* C14: a failure inside a background task stays inside it.  A step changes
\* at most one task, so a task that ends (failed or not) leaves every other
\* scheduled task as it was, free to run; a task only ever begins when a
\* request schedules it, so one that ended is not run again.
C14_FailureStaysInsideTask ==
    [][/\ Cardinality(FramesTouched) <= 1
       /\ \A t \in NewReviewTasks :
            /\ t.pc = "review"
            /\ \E f \in submits : f.ticket = t.ticket /\ f \notin submits'
            /\ FramesTouched = {}
       /\ \A t \in NewPortraitTasks :
            /\ t.pc = "generate"
            /\ issued'.chefs = t.ticket /\ issued.chefs = t.ticket - 1
            /\ FramesTouched = {}
       /\ Cardinality(NewReviewTasks \cup NewPortraitTasks) <= 1]_vars

\* Two submissions with both pictures saved were scheduled; the task of one
\* failed and wrote nothing, the task of the other recorded its review and
\* all six scores.
C14_Witness ==
    /\ submits = {} /\ reviewTasks = {}
    /\ Cardinality(pizzas) = 2
    /\ \A p \in pizzas : Cardinality(ImagesOf({p.id})) = 2
    /\ \E p, q \in pizzas :
          /\ ReviewsOf({p.id}) = {}
          /\ Cardinality(ReviewsOf({q.id})) = 1
          /\ Cardinality(ScoresOfPizza(q.id)) = 6

(***************************************************************************)
(* Claims about chef creation and the portrait task, under SpecChefs.      *)
(***************************************************************************)
\* The path under which create_chef_submit stored the upload of request n,
\* and the path under which that request's portrait task stores its result.
UploadPath(n, ext) == WebPath("chefs", "chef_temp", 0, 0, n, ext)

PortraitPath(n) == WebPath("chefs", "chef_ai", 0, 0, n, ".png")

\* A step in which portrait task t ends without a portrait: the generation
\* raised, or the file write or the store update failed.
PortraitFails(t) ==
    \/ /\ t.pc = "generate"
       /\ \A u \in portraitTasks' : u.ticket # t.ticket
    \/ PortraitStore(t, "file")
    \/ PortraitStore(t, "store")

\* C15: when portrait generation fails after its retries, or the store
\* update fails, no Chef row changes, and the task's chef still has the path
\* of the upload stored at its creation (a file that is still there).
C15_FailedPortraitKeepsUpload ==
    [][\A t \in portraitTasks :
         PortraitFails(t) =>
             /\ chefs' = chefs
             /\ \E c \in chefs' :
                   /\ c.id = t.chef_id
                   /\ c.image_path = <<UploadPath(t.ticket, ".jpg")>>
                   /\ LocalPath(c.image_path[1]) \in files']_vars

\* The store update of the portrait failed after the portrait file was
\* written: the new chef keeps its upload, the three earlier chefs are as
\* they were.
C15_Witness ==
    /\ portraitTasks = {}
    /\ LocalPath(PortraitPath(1)) \in files
    /\ EarlierChefs \subseteq chefs
    /\ \E c \in chefs \ EarlierChefs : c.image_path = <<UploadPath(1, ".jpg")>>

\* The Chef rows a step adds, and the portrait tasks it schedules.
NewChefs == { c \in chefs' : c.id \notin Ids(chefs) }

\* A new Chef row is there before the response, with image_path null or the
\* stored path of the upload.
C18_PersistedWithUpload ==
    \A c \in NewChefs :
        \/ c.image_path = <<>>
        \/ /\ c.image_path = <<UploadPath(issued'.chefs, ".jpg")>>
           /\ LocalPath(c.image_path[1]) \in files'

\* A chef's image_path is only overwritten by a portrait task of that chef,
\* which ends in that step: once per task, and there is one task at most.
C18_OverwrittenOnce ==
    /\ \A c \in chefs : \A d \in chefs' :
          (c.id = d.id /\ c.image_path # d.image_path) =>
              \E t \in portraitTasks \ portraitTasks' :
                  /\ t.chef_id = c.id
                  /\ \A u \in portraitTasks' : u.ticket # t.ticket
    /\ \A t, u \in portraitTasks' : (t.chef_id = u.chef_id) => (t = u)

\* C18: an accepted create-chef request persists the Chef row with
\* image_path the upload's stored path, or null when no image was given; a
\* portrait task is scheduled if and only if an image was given; the task
\* overwrites the chef's image_path at most once.
C18_PortraitIffImage ==
    [][/\ C18_PersistedWithUpload
       /\ \A c \in NewChefs :
            (c.image_path # <<>>) <=> (\E t \in NewPortraitTasks : t.chef_id = c.id)
       /\ C18_OverwrittenOnce]_vars

\* C19, under SpecRequests: when the review task of an accepted submission
\* is scheduled, its pizza has between 1 and 3 PizzaImage rows.
C19_OneToThreeImages ==
    [][\A t \in NewReviewTasks :
         Cardinality(ImagesOf({t.pizza_id})') \in 1..3]_vars

\* The validation reasons: an empty name or an image of an unaccepted
\* format for create-chef; an unknown chef, an image count outside 1..3 or
\* an image of an unaccepted format for submit-pizza.
AcceptedFormat(part) ==
    Lower(part.filename.suffix) \in {".jpg", ".jpeg", ".png", ".gif", ".webp"}

InvalidChefRequest(name, image) ==
    \/ Strip(name) = <<>>
    \/ HasFile(image) /\ ~AcceptedFormat(image)

InvalidSubmitRequest(chef_id, parts) ==
    \/ \A c \in chefs : c.id # chef_id
    \/ Len(parts) \notin 1..3
    \/ \E i \in 1..Len(parts) : HasFile(parts[i]) /\ ~AcceptedFormat(parts[i])

\* What a rejected request leaves behind: the count of rejected requests
\* goes up by one, and nothing else changes.
OnlyRejected ==
    /\ issued' = [issued EXCEPT !.rejected = @ + 1]
    /\ UNCHANGED <<tables, files, submits, reviewTasks, portraitTasks>>

\* C20: a create-chef or submit-pizza request rejected for a validation
\* reason leaves every table unchanged, writes no file, schedules no task
\* and is handled once.
C20_RejectedChangesNothing ==
    [][/\ \A name \in ChefNameInputs, image \in ChefImageInputs, failure \in Failures :
            (InvalidChefRequest(name, image) /\ CreateChefSubmit(name, image, failure))
                => OnlyRejected
       /\ \A chef_id \in Ids(chefs) \cup {NextId(chefs)}, parts \in PizzaImageInputs :
            (InvalidSubmitRequest(chef_id, parts) /\ SubmitValidate(chef_id, parts))
                => OnlyRejected]_vars

\* A request was rejected while the store held a chef: the chef is there,
\* and no pizza, file, submission or task.
C20_Witness ==
    /\ issued = [chefs |-> 1, submits |-> 0, deletes |-> 0, rejected |-> 1]
    /\ Cardinality(chefs) = 1
    /\ pizzas = {} /\ images = {} /\ files = {}
    /\ submits = {} /\ reviewTasks = {} /\ portraitTasks = {}

(***************************************************************************)
(* Claims about the leaderboard, under SpecRequests.                       *)
(***************************************************************************)
\* The mean of the score rows reachable from a pizza, as sum and count.
MeanOf(pizza_id) ==
    [sum |-> SumScores(ScoresOfPizza(pizza_id)),
     count |-> Cardinality(ScoresOfPizza(pizza_id))]

C17_OnlyScoredPizzas ==
    \A b \in leaderboard : \A i \in 1..Len(b) :
        /\ b[i].pizza_id \in Ids(pizzas)
        /\ ReviewsOf({b[i].pizza_id}) # {}
        /\ ScoresOfPizza(b[i].pizza_id) # {}

\* One pizza has its review committed and no score yet, another has none at
\* all, or one of them is ranked: the list holds exactly the scored one.
C17_Witness ==
    /\ Cardinality(pizzas) = 2
    /\ \E p \in pizzas :
          /\ ReviewsOf({p.id}) # {}
          /\ ScoresOfPizza(p.id) = {}
    /\ \E b \in leaderboard : Len(b) = 1

(***************************************************************************)
(* Claims about where the remote calls are made, under SpecRequests.       *)
(***************************************************************************)
\* C21: no remote call is made while a request is being handled, and the
\* result is written after the call.  A remote call is made only by a step
\* of a scheduled task, so: a review task exists only when the request that
\* scheduled it has returned, its Pizza row is committed and the PizzaImage
\* rows of the pizza are exactly the pictures the task was given; until the
\* call has returned and the task has saved, the pizza has no review.  A
\* portrait task exists only with its Chef row committed, and the chef does
\* not point at the task's portrait while the task is there.
C21_RemoteCallAfterCommit ==
    /\ \A t \in reviewTasks :
          /\ \A f \in submits : f.ticket # t.ticket
          /\ t.pizza_id \in Ids(pizzas)
          /\ { i.image_path : i \in ImagesOf({t.pizza_id}) } = Range(t.image_paths)
          /\ Cardinality(ImagesOf({t.pizza_id})) = Len(t.image_paths)
          /\ (t.pc \in {"review", "save"}) => (ReviewsOf({t.pizza_id}) = {})
    /\ \A t \in portraitTasks :
          /\ issued.chefs >= t.ticket
          /\ get_chef_by_id(t.chef_id) # {}
          /\ \A c \in chefs : c.image_path # <<PortraitPath(t.ticket)>>

\* The remote call for a pizza with two committed pictures has returned and
\* its result is not yet written.
C21_Witness ==
    \E t \in reviewTasks :
        /\ t.pc = "save"
        /\ Len(t.image_paths) = 2
        /\ Cardinality(ImagesOf({t.pizza_id})) = 2
        /\ ReviewsOf({t.pizza_id}) = {}

(***************************************************************************)
(* Further claims about review_pizza_images, under SpecReview.             *)
(***************************************************************************)
\* The outcomes with which the remote call fails: it raises, or its reply
\* does not parse.
FailingOutcomes ==
    { o \in ReviewOutcomes : o.kind = "exception" \/ ~o.reply.parses }

\* C22: one invocation makes at most one remote call; when that call raises
\* or its reply does not parse, the invocation ends raising that failure,
\* having made the one call and no other.
C22_OneCallNoRetry ==
    [][/\ Len(rev'.requests) <= 1
       /\ \A o \in FailingOutcomes :
            (/\ rev' = review_pizza_images(revEnv.paths, revEnv.chef_name, revEnv.table,
                                           revEnv.prompt, revEnv.files, o)
             /\ revEnv.table.ok /\ PromptLoads /\ ~NoneReadable) =>
                /\ rev'.kind = "raised"
                /\ rev'.err = (IF o.kind = "exception" THEN o.err ELSE "JSONDecodeError")
                /\ Len(rev'.requests) = 1]_vars

\* The remote call raised APIError: it was made once and the error came out.
C22_Witness ==
    /\ rev.kind = "raised"
    /\ rev.err = "APIError"
    /\ Len(rev.requests) = 1

\* The paths given that can be read, in the order given.
ReadablePaths == 
    SelectSeq(revEnv.paths, LAMBDA q : LocalPath(q) \in revEnv.files)

\* C23: once the categories and the prompt are loaded, an unreadable path is
\* skipped without aborting the call: the remote call is made exactly when a
\* path was readable, once, and carries the readable images in the order of
\* their paths.
C23_UnreadableSkipped ==
    (rev.kind # "none" /\ revEnv.table.ok /\ PromptLoads) =>
        IF ReadablePaths = <<>>
        THEN rev.requests = <<>>
        ELSE /\ Len(rev.requests) = 1
             /\ rev.requests[1].images =
                  [i \in 1..Len(ReadablePaths) |-> LocalPath(ReadablePaths[i])]
             /\ rev.err \notin {"FileNotFoundError", "OperationalError", "KeyError"}

\* Two paths, the first unreadable: the call was made with the second alone.
C23_Witness ==
    /\ Len(revEnv.paths) = 2
    /\ LocalPath(revEnv.paths[1]) \notin revEnv.files
    /\ LocalPath(revEnv.paths[2]) \in revEnv.files
    /\ rev.kind = "returned"
    /\ rev.requests # <<>>
    /\ rev.requests[1].images = <<LocalPath(revEnv.paths[2])>>

(***************************************************************************)
(* A claim about the portrait task and deleted chefs, under Spec.          *)
(***************************************************************************)
\* C24: when a portrait task reaches its store update and no Chef row has
\* its chef id, the update changes nothing: the Chef table is as before (no
\* row created, none modified), the task ends, and every other task is left
\* as it was.
C24_MissingChefIsNoOp ==
    [][\A t \in portraitTasks :
         (/\ t.pc = "store"
          /\ get_chef_by_id(t.chef_id) = {}
          /\ t \notin portraitTasks') =>
            /\ chefs' = chefs
            /\ portraitTasks' = portraitTasks \ {t}
            /\ reviewTasks' = reviewTasks
            /\ UNCHANGED <<pizzas, images, categories, reviews, scores, submits>>]_vars

\* A portrait was generated for a chef that has been deleted meanwhile.
C24_Witness ==
    \E t \in portraitTasks :
        /\ t.pc = "store"
        /\ t.bytes # NoBytes
        /\ get_chef_by_id(t.chef_id) = {}
        /\ t.chef_id \in gone.chefs

(***************************************************************************)
(* A claim about start-up, under SpecSeed.                                 *)
(***************************************************************************)
\* C25: after any run of initialize_database has ended, alone or among
\* concurrent runs of other processes, the ReviewCategory table holds the six
\* seeded names, each exactly once; rows are only ever inserted into an
\* empty table.
C25_SixNamesOnce ==
    /\ (\E p \in Processes : seeders[p].runs > 0) =>
          /\ { c.name : c \in categories } = Range(SeedCategoryNames)
          /\ Cardinality(categories) = 6
          /\ \A c, e \in categories : (c.name = e.name) => (c = e)
    /\ categories = {} \/ categories = SeededCategories

\* Two processes found the table empty at the same time: one inserted the
\* rows, the other's insert was refused; a third run found them and skipped.
C25_Witness ==
    \E p, q, r \in Processes :
        /\ seeders[p].pc = "raised"
        /\ seeders[q].pc = "done" /\ seeders[q].runs = 1
        /\ seeders[r].pc = "done" /\ seeders[r].runs = 2
        /\ Cardinality(categories) = 6

(***************************************************************************)
(* Claims about the background runner, under SpecThreads and               *)
(* SpecThreadsLive.                                                        *)
(***************************************************************************)
\* The remote call of thread t is in progress: sent and not yet answered.
RemoteInProgress(t) ==
    \/ threads[t].kind = "review" /\ threads[t].pc = "remote"
    \/ /\ threads[t].kind = "portrait"
       /\ threads[t].pc = "generate"
       /\ threads[t].gen.pc = "attempt"

\* C26 as claimed: while any remote call is in progress no store session is
\* open anywhere.
C26_Claimed ==
    (\E t \in TaskIds : RemoteInProgress(t)) => (sessions = {})

\* C26, amended: a task holds no store session while its own remote call is
\* in progress or while it waits between attempts, nor once it has ended on
\* any path; its sessions are open only during its category query and its
\* writing of the result, the latter after the remote call returned.
C26_NoSessionAcrossOwnCall ==
    \A t \in TaskIds :
        /\ (t \in sessions) <=> (threads[t].pc \in {"categories", "save", "update"})
        /\ RemoteInProgress(t) => t \notin sessions
        /\ (threads[t].pc = "done") => t \notin sessions
        /\ (threads[t].pc = "update") => threads[t].gen.result.kind = "returned"

\* A review thread has closed its category session and its remote call is
\* in progress, while another thread holds the session it writes with.
C26_Witness ==
    \E t, u \in TaskIds :
        /\ threads[t].kind = "review" /\ threads[t].pc = "remote"
        /\ t \notin sessions
        /\ threads[u].pc \in {"save", "update"}
        /\ u \in sessions

\* C27: given that every remote call returns or fails, every scheduled task
\* finishes, with its result written or its failure printed; a portrait task
\* makes at most 3 remote attempts and waits at most twice; no step takes a
\* scheduled task away before it has finished.
C27_TasksFinish ==
    /\ \A t \in TaskIds :
          (threads[t].pc = "start") ~> (threads[t].pc = "done")
    /\ [](\A t \in TaskIds :
            /\ Len(threads[t].gen.calls) <= 3
            /\ Len(threads[t].gen.sleeps) <= 2
            /\ (threads[t].pc = "done") => threads[t].outcome \in {"written", "logged"})
    /\ [][\A t \in TaskIds :
            (threads[t].pc # "idle") =>
                /\ threads'[t].pc # "idle"
                /\ threads'[t].kind = threads[t].kind
                /\ (threads[t].pc = "done") => (threads'[t] = threads[t])]_vars

\* A portrait task ended after three failed attempts and two waits, its
\* failure printed; a review task ended with its result written.
C27_Witness ==
    \E t, u \in TaskIds :
        /\ threads[t].kind = "portrait" /\ threads[t].pc = "done"
        /\ Len(threads[t].gen.calls) = 3
        /\ Len(threads[t].gen.sleeps) = 2
        /\ threads[t].outcome = "logged"
        /\ threads[u].kind = "review" /\ threads[u].pc = "done"
        /\ threads[u].outcome = "written"

(***************************************************************************)
(* Claims about concurrent submissions, under SpecRequests.                *)
(***************************************************************************)
\* The category a score row is for.
CategoryNameOf(s) == (CHOOSE c \in categories : c.id = s.category_id).name

\* C28: whichever of two review tasks saves first, the PizzaReview a task
\* records references the task's own pizza, whose PizzaImage rows are the
\* pictures the task had reviewed, and the score rows a task records belong
\* to its own review and carry the scores of its own reply; the rows of the
\* other review are left as they were.
C28_ReviewsKeptApart ==
    [][\A t \in reviewTasks :
         /\ (t.pc = "save" /\ t \notin reviewTasks' /\ reviews' # reviews) =>
              \E r \in reviews' :
                 /\ reviews' = reviews \cup {r}
                 /\ r \notin reviews
                 /\ r.pizza_id = t.pizza_id
                 /\ r.review_summary = t.data.summary[1]
                 /\ { i.image_path : i \in ImagesOf({r.pizza_id}) } = Range(t.image_paths)
                 /\ scores' = scores
         /\ (t.pc = "scores" /\ t \notin reviewTasks') =>
              /\ reviews' = reviews
              /\ scores \subseteq scores'
              /\ \A r \in reviews : (r.id = t.review_id) => (r.pizza_id = t.pizza_id)
              /\ \A s \in scores' \ scores :
                   /\ s.pizza_review_id = t.review_id
                   /\ CategoryNameOf(s) \in DOMAIN t.data.scores.map
                   /\ s.score = t.data.scores.map[CategoryNameOf(s)]]_vars

\* The pizza submitted second was reviewed first: its review has id 1, the
\* first pizza's review id 2, and each carries its own six scores (4s for
\* one, 7s for the other).
C28_Witness ==
    \E r, q \in reviews :
        /\ r.id = 1 /\ r.pizza_id = 2
        /\ q.id = 2 /\ q.pizza_id = 1
        /\ Cardinality(ScoresOf({r.id})) = 6
        /\ Cardinality(ScoresOf({q.id})) = 6
        /\ \A s \in ScoresOf({r.id}) : s.score = 7
        /\ \A s \in ScoresOf({q.id}) : s.score = 4

\* The review that is returned when no picture can be read.
ZeroReview ==
    JsonObject(<<"No images supplied for review.">>,
               ScoresObject([c \in Range(SeedCategoryNames) |-> 0]))

Abandoned(pizza_id) ==
    /\ pizza_id \in Ids(pizzas)
    /\ \A f \in submits : f.pizza_id # pizza_id
    /\ \A t \in reviewTasks : t.pizza_id # pizza_id
    /\ ReviewsOf({pizza_id}) = {}

\* C30: when submit-pizza fails while storing a picture, after its Pizza row
\* was committed (the request ends with a picture still to store), the Pizza
\* row and the PizzaImage rows committed so far stay, no review task is
\* scheduled, and the pizza is left without request, task and review; a
\* pizza in that condition stays in it, so it never gets a PizzaReview.
C30_FailedSubmitLeavesPizza ==
    [][/\ \A f \in submits :
            (/\ f.pc = "images"
             /\ Pending(f) # {}
             /\ \A g \in submits' : g.ticket # f.ticket) =>
                /\ pizzas' = pizzas
                /\ images' = images
                /\ reviewTasks' = reviewTasks
                /\ f.pizza_id \in Ids(pizzas')
                /\ Cardinality(ImagesOf({f.pizza_id})) = Len(f.paths)
                /\ Abandoned(f.pizza_id)'
       /\ \A p \in pizzas : Abandoned(p.id) => Abandoned(p.id)']_vars

\* The first picture of a submission was stored and the second was not: the
\* pizza is left with one PizzaImage row, no task and no review, while the
\* other submission went through.
C30_Witness ==
    \E p, q \in pizzas :
        /\ Abandoned(p.id)
        /\ Cardinality(ImagesOf({p.id})) = 1
        /\ Cardinality(ImagesOf({q.id})) = 2
        /\ ReviewsOf({q.id}) # {}

====
